---- MODULE Spec2Model ----
(***************************************************************************)
(* Model of the scrypted-monitor plugin (src/src/main.ts, src/src/utils.ts):*)
(* the task decoder (getTask/getTasks), the fingerprint (getTaskChecksum), *)
(* the reconciler (checkActiveTasks/startTaskCron) with its cron timers,   *)
(* and the task executor (executeTask) with its notification phase.        *)
(***************************************************************************)
EXTENDS Integers, Sequences, FiniteSets, TLC

VARIABLES
    tasks,               \* storageSettings.values.tasks: the configured task-name list
    storage,             \* this.storage: key -> raw string, Absent when the key is not stored
    notifier,            \* storageSettings.values.notifier: the default notifier, Null if none
    taskManualExecution, \* storageSettings.values.taskManualExecution
    currentChecksum,     \* this.currentChecksum
    cronTasks,           \* this.cronTasks: every ScheduledTask ever pushed, in push order
    lastTick,            \* how the latest call of checkActiveTasks ended
    runs,                \* the calls of executeTask in flight, in start order
    lastManual,          \* how the latest startManualExecution.onPut ended
    cfgChanged,          \* history: storage or the task list was written since the latest tick
    nWrites,             \* history: number of configuration writes so far
    diagnosticsPlugin,   \* this.diagnosticsPlugin: its validate and warnStep hooks, its testDevice
    ticks,               \* the calls of checkActiveTasks that have not returned yet
    tasksCheckListener,  \* this.tasksCheckListener: the handle of the latest setInterval, 0 if none
    intervals,           \* the host's intervals by handle: TRUE while scheduled, FALSE once cleared
    lifecycle            \* history: the latest of constructor/start/stop, the one before, and the writes since each

vars == <<tasks, storage, notifier, taskManualExecution, currentChecksum,
          cronTasks, lastTick, runs, lastManual, cfgChanged, nWrites,
          diagnosticsPlugin, ticks, tasksCheckListener, intervals, lifecycle>>

----------------------------------------------------------------------------
(* Bounds of the model.                                                    *)

MaxWrites == 2
MaxTimers == 5
MaxRuns == 1
MaxOverlap == 2
MaxNumber == 80
MaxCount == 2
MaxIntervals == 3

----------------------------------------------------------------------------
(* Values.                                                                 *)

\* storage.getItem of a key that is not stored returns null.
Absent == "<absent>"
\* the JavaScript null / undefined of a field that holds no string
Null == "<null>"
\* this.currentChecksum before the first assignment
Undefined == "<undefined>"

Names == {"A", "B"}
Notifiers == {"n1", "n2"}

\* export enum TaskType
TaskType == {"UpdatePlugins", "RestartPlugins", "Diagnostics", "RestartCameras",
             "ReportPluginsStatus", "ReportHaBatteryStatus", "ReportHaConsumables",
             "TomorrowEventsHa", "RestartScrypted", "ReportHaUnavailableEntities"}

\* the plugins the host knows, by device id.  scryptedName is scrypted.name of
\* package.json, the package of this plugin.
scryptedName == "@apocaliss92/scrypted-monitor"
PluginIds == {"pSelf", "pCore", "pOther"}

\* the devices the host knows: one that can be rebooted and one that cannot
DeviceIds == {"dCam1", "dCam2"}

\* ids a task may still list after the plugin or device was removed
UnknownIds == {"pGone", "dGone"}

\* sdk.systemManager.getDeviceById(id) returns a device
Known(id) == id \in PluginIds \cup DeviceIds

\* device.name
DeviceName(deviceId) == IF deviceId = "dCam1" THEN "Cam 1" ELSE "Cam 2"

\* device.interfaces.includes(ScryptedInterface.Reboot)
HasReboot(deviceId) == deviceId = "dCam1"

\* sdk.systemManager.getDeviceById(pluginId).info.manufacturer
PackageOf(pluginId) ==
    CASE pluginId = "pSelf" -> scryptedName
      [] pluginId = "pCore" -> "@scrypted/core"
      [] OTHER -> "@scrypted/other"

\* the home-automation entities of the model
EntityIds == {"sensor.a", "sensor.b", "binary_sensor.c", "sensor.d", "binary_sensor.p"}

\* cron expressions a user may type; node-cron accepts the first two
CronA == "0 * * * *"
CronB == "0 0 * * *"
CronBad == "not a cron"

\* cron.schedule validates the expression and throws on an invalid one
ValidCron(expr) == expr \in {CronA, CronB}

----------------------------------------------------------------------------
(* getTaskKeys: the storage keys of a task.                                *)

TaskKey(taskName, field) == "task:" \o taskName \o ":" \o field

getTaskKeys(taskName) ==
    [ taskTypeKey                 |-> TaskKey(taskName, "type"),
      taskDevicesKey              |-> TaskKey(taskName, "devices"),
      taskPluginsKey              |-> TaskKey(taskName, "plugins"),
      taskCronKey                 |-> TaskKey(taskName, "cron"),
      taskRebootKey               |-> TaskKey(taskName, "reboot"),
      taskEnabledKey              |-> TaskKey(taskName, "enabled"),
      taskSystemDiagnostic        |-> TaskKey(taskName, "systemDiagnostic"),
      taskBetaKey                 |-> TaskKey(taskName, "beta"),
      taskMaxStatsKey             |-> TaskKey(taskName, "maxStats"),
      taskSkipNotify              |-> TaskKey(taskName, "skipNotify"),
      taskCheckAllPluginsVersion  |-> TaskKey(taskName, "checkAllPlugins"),
      taskBatteryThreshold        |-> TaskKey(taskName, "batteryThreshold"),
      taskCalendarDaysInFuture    |-> TaskKey(taskName, "calendarDaysInFuture"),
      taskEntitiesToAlwaysReport  |-> TaskKey(taskName, "entitiesToAlwaysReport"),
      taskEntitiesToExclude       |-> TaskKey(taskName, "entitiesToExclude"),
      taskAdditionalNotifiers     |-> TaskKey(taskName, "additionalNotifiers"),
      taskCalendarEntity          |-> TaskKey(taskName, "calendarEntity"),
      tasksUnavailableTime        |-> TaskKey(taskName, "tasksUnavailableTime") ]

KeyFields == DOMAIN getTaskKeys("A")

AllKeys == { getTaskKeys(n)[f] : n \in Names, f \in KeyFields }

----------------------------------------------------------------------------
(* JSON.parse and JSON.stringify on the values the task fields hold.       *)

Quote == "\""

\* a regular expression over entity ids, as the unavailable-entities report
\* reads its two lists
EntityPatterns == {"binary"}

\* items of the list-valued fields: notifier ids, plugin ids, entity ids and
\* patterns
ListItems == Notifiers \cup PluginIds \cup EntityIds \cup EntityPatterns
                \cup DeviceIds \cup UnknownIds

\* Array.prototype.join of the elements from index i on
RECURSIVE JoinFrom(_, _, _)
JoinFrom(strs, i, sep) ==
    IF i > Len(strs) THEN ""
    ELSE IF i = Len(strs) THEN strs[i]
    ELSE strs[i] \o sep \o JoinFrom(strs, i + 1, sep)

JoinStrings(strs, sep) == JoinFrom(strs, 1, sep)

\* JSON.stringify of a string or null
JSONStringifyString(s) == IF s = Null THEN "null" ELSE Quote \o s \o Quote
JSONStringifyBool(b) == IF b THEN "true" ELSE "false"
JSONStringifyNumber(n) == ToString(n)
\* JSON.stringify of an array of strings.  The backslash put before a quote
\* inside an element is a per-character renaming and is not written out.
JSONStringifyList(l) ==
    "[" \o JoinStrings([i \in DOMAIN l |-> JSONStringifyString(l[i])], ",") \o "]"

ShortLists == { <<>> } \cup { <<a>> : a \in ListItems }
                 \cup { <<a, b>> : a \in ListItems, b \in ListItems }

\* the number and array literals of the model, with the values they denote
NumberLiterals == [s \in { ToString(k) : k \in 0..MaxNumber } |->
                      CHOOSE k \in 0..MaxNumber : ToString(k) = s]
ListLiterals == [s \in { JSONStringifyList(l) : l \in ShortLists } |->
                    CHOOSE l \in ShortLists : JSONStringifyList(l) = s]

\* JSON.parse(raw): the value, or a SyntaxError (ok = FALSE) when raw is not JSON
JSONParse(raw) ==
    CASE raw = "true" -> [ok |-> TRUE, v |-> TRUE]
      [] raw = "false" -> [ok |-> TRUE, v |-> FALSE]
      [] raw \in DOMAIN NumberLiterals -> [ok |-> TRUE, v |-> NumberLiterals[raw]]
      [] raw \in DOMAIN ListLiterals -> [ok |-> TRUE, v |-> ListLiterals[raw]]
      [] OTHER -> [ok |-> FALSE]

\* storage.getItem(key) ?? fallback
OrDefault(raw, fallback) == IF raw = Absent THEN fallback ELSE raw
\* storage.getItem(key) of a field that is used as the stored string
GetItem(raw) == IF raw = Absent THEN Null ELSE raw

----------------------------------------------------------------------------
(* getTask: decode one task name from storage.                             *)

\* JSON.parse(this.storage.getItem(key) ?? fallback) of one field
ParseField(st, taskName, field, fallback) ==
    JSONParse(OrDefault(st[getTaskKeys(taskName)[field]], fallback))

\* mutant: other fallbacks for maxStats and batteryThreshold
ParsedDefaultsOther ==
    [ taskRebootKey              |-> "false",
      taskSkipNotify             |-> "false",
      taskSystemDiagnostic       |-> "true",
      taskBetaKey                |-> "false",
      taskPluginsKey             |-> "[]",
      taskDevicesKey             |-> "[]",
      taskAdditionalNotifiers    |-> "[]",
      taskEnabledKey             |-> "true",
      taskCheckAllPluginsVersion |-> "true",
      taskMaxStatsKey            |-> "10",
      taskEntitiesToAlwaysReport |-> "[]",
      taskEntitiesToExclude      |-> "[]",
      taskBatteryThreshold       |-> "20",
      tasksUnavailableTime       |-> "24",
      taskCalendarDaysInFuture   |-> "14" ]

\* the fields getTask passes through JSON.parse, with their fallbacks
ParsedDefaults ==
    [ taskRebootKey              |-> "false",
      taskSkipNotify             |-> "false",
      taskSystemDiagnostic       |-> "true",
      taskBetaKey                |-> "false",
      taskPluginsKey             |-> "[]",
      taskDevicesKey             |-> "[]",
      taskAdditionalNotifiers    |-> "[]",
      taskEnabledKey             |-> "true",
      taskCheckAllPluginsVersion |-> "true",
      taskMaxStatsKey            |-> "5",
      taskEntitiesToAlwaysReport |-> "[]",
      taskEntitiesToExclude      |-> "[]",
      taskBatteryThreshold       |-> "30",
      tasksUnavailableTime       |-> "24",
      taskCalendarDaysInFuture   |-> "14" ]

Parsed(st, taskName, field) == ParseField(st, taskName, field, ParsedDefaults[field])

\* getTask(taskName) returns (TRUE) or one of its JSON.parse calls throws (FALSE)
getTaskReturns(st, taskName) ==
    \A field \in DOMAIN ParsedDefaults : Parsed(st, taskName, field).ok

\* the Task record getTask(taskName) returns
getTask(st, taskName) ==
    [ name                   |-> taskName,
      type                   |-> GetItem(st[getTaskKeys(taskName).taskTypeKey]),
      cronScheduler          |-> GetItem(st[getTaskKeys(taskName).taskCronKey]),
      rebootOnErrors         |-> Parsed(st, taskName, "taskRebootKey").v,
      skipNotify             |-> Parsed(st, taskName, "taskSkipNotify").v,
      runSystemDiagnostic    |-> Parsed(st, taskName, "taskSystemDiagnostic").v,
      beta                   |-> Parsed(st, taskName, "taskBetaKey").v,
      plugins                |-> Parsed(st, taskName, "taskPluginsKey").v,
      devices                |-> Parsed(st, taskName, "taskDevicesKey").v,
      additionalNotifiers    |-> Parsed(st, taskName, "taskAdditionalNotifiers").v,
      enabled                |-> Parsed(st, taskName, "taskEnabledKey").v,
      checkAllPlugins        |-> Parsed(st, taskName, "taskCheckAllPluginsVersion").v,
      maxStats               |-> Parsed(st, taskName, "taskMaxStatsKey").v,
      entitiesToAlwaysReport |-> Parsed(st, taskName, "taskEntitiesToAlwaysReport").v,
      entitiesToExclude      |-> Parsed(st, taskName, "taskEntitiesToExclude").v,
      batteryThreshold       |-> Parsed(st, taskName, "taskBatteryThreshold").v,
      unavailableTime        |-> Parsed(st, taskName, "tasksUnavailableTime").v,
      calendarDaysInFuture   |-> Parsed(st, taskName, "taskCalendarDaysInFuture").v,
      calendarEntity         |-> GetItem(st[getTaskKeys(taskName).taskCalendarEntity]) ]

\* mutant: the enabled flag is not looked at
IsEnabledAlways(task) == TRUE

\* if (task.enabled) taskEntities.push(task)
IsEnabled(task) == task.enabled

\* getTasks returns (TRUE), or a decode throws out of its forEach (FALSE)
getTasksReturns(st, names) ==
    \A i \in DOMAIN names : getTaskReturns(st, names[i])

\* getTasks: every configured name decoded in list order, the enabled ones kept
getTasks(st, names) ==
    SelectSeq([i \in DOMAIN names |-> getTask(st, names[i])], IsEnabled)

----------------------------------------------------------------------------
(* The fingerprint.                                                        *)

JSONMember(key, text) == Quote \o key \o Quote \o ":" \o text

\* JSON.stringify(task): the members in the order getTask creates them
JSONStringifyTask(task) ==
    "{" \o JSONMember("name", JSONStringifyString(task.name))
    \o "," \o JSONMember("type", JSONStringifyString(task.type))
    \o "," \o JSONMember("cronScheduler", JSONStringifyString(task.cronScheduler))
    \o "," \o JSONMember("rebootOnErrors", JSONStringifyBool(task.rebootOnErrors))
    \o "," \o JSONMember("skipNotify", JSONStringifyBool(task.skipNotify))
    \o "," \o JSONMember("runSystemDiagnostic", JSONStringifyBool(task.runSystemDiagnostic))
    \o "," \o JSONMember("beta", JSONStringifyBool(task.beta))
    \o "," \o JSONMember("plugins", JSONStringifyList(task.plugins))
    \o "," \o JSONMember("devices", JSONStringifyList(task.devices))
    \o "," \o JSONMember("additionalNotifiers", JSONStringifyList(task.additionalNotifiers))
    \o "," \o JSONMember("enabled", JSONStringifyBool(task.enabled))
    \o "," \o JSONMember("checkAllPlugins", JSONStringifyBool(task.checkAllPlugins))
    \o "," \o JSONMember("maxStats", JSONStringifyNumber(task.maxStats))
    \o "," \o JSONMember("entitiesToAlwaysReport", JSONStringifyList(task.entitiesToAlwaysReport))
    \o "," \o JSONMember("entitiesToExclude", JSONStringifyList(task.entitiesToExclude))
    \o "," \o JSONMember("batteryThreshold", JSONStringifyNumber(task.batteryThreshold))
    \o "," \o JSONMember("unavailableTime", JSONStringifyNumber(task.unavailableTime))
    \o "," \o JSONMember("calendarDaysInFuture", JSONStringifyNumber(task.calendarDaysInFuture))
    \o "," \o JSONMember("calendarEntity", JSONStringifyString(task.calendarEntity))
    \o "}"

getTaskChecksum(task) == JSONStringifyTask(task)

\* mutant: the fingerprints are joined in the order of the task names
newCronChecksumByName(taskEntities) ==
    JSONStringifyList(
        [i \in DOMAIN SelectSeq(taskEntities, LAMBDA t : t.name = "A") |->
            getTaskChecksum(SelectSeq(taskEntities, LAMBDA t : t.name = "A")[i])]
        \o [i \in DOMAIN SelectSeq(taskEntities, LAMBDA t : t.name # "A") |->
            getTaskChecksum(SelectSeq(taskEntities, LAMBDA t : t.name # "A")[i])])

\* JSON.stringify(taskEntities.map(getTaskChecksum))
newCronChecksum(taskEntities) ==
    JSONStringifyList([i \in DOMAIN taskEntities |-> getTaskChecksum(taskEntities[i])])

----------------------------------------------------------------------------
(* The reconciler: startTaskCron and checkActiveTasks.                     *)

\* a ScheduledTask of node-cron: the closure's task and whether it still fires
Timer(task) == [task |-> task, running |-> TRUE]

\* startTaskCron(task): an empty (or absent) expression schedules nothing; an
\* expression cron.schedule rejects throws inside the try and is only logged
startTaskCron(timers, task) ==
    IF task.cronScheduler \in {Null, ""} THEN timers
    ELSE IF ValidCron(task.cronScheduler) THEN Append(timers, Timer(task))
    ELSE timers

\* mutant: the old timers are left running
StopNone(timers) == timers

\* mutant: the timer created last is left running
StopAllButLast(timers) ==
    [i \in DOMAIN timers |->
        IF i < Len(timers) THEN [timers[i] EXCEPT !.running = FALSE] ELSE timers[i]]

\* this.cronTasks.forEach(task => task.stop())
StopAll(timers) == [i \in DOMAIN timers |-> [timers[i] EXCEPT !.running = FALSE]]

\* mutant: the first expression cron.schedule rejects ends the loop
RECURSIVE StartAllAbort(_, _)
StartAllAbort(timers, taskEntities) ==
    IF taskEntities = <<>> THEN timers
    ELSE IF Head(taskEntities).cronScheduler \notin {Null, ""}
            /\ ~ValidCron(Head(taskEntities).cronScheduler)
    THEN timers
    ELSE StartAllAbort(startTaskCron(timers, Head(taskEntities)), Tail(taskEntities))

\* for (const task of taskEntities) await this.startTaskCron(task)
RECURSIVE StartAll(_, _)
StartAll(timers, taskEntities) ==
    IF taskEntities = <<>> THEN timers
    ELSE StartAll(startTaskCron(timers, Head(taskEntities)), Tail(taskEntities))

\* mutant: the timers are replaced whether or not the fingerprint changed
ReconcileAlways(taskEntities, sum, checksum, timers) ==
    [outcome |-> "restarted", checksum |-> sum,
     timers |-> StartAll(StopAll(timers), taskEntities)]

\* mutant: a partial patch, the running timers of unchanged tasks are kept
ReconcilePatch(taskEntities, sum, checksum, timers) ==
    IF sum # checksum
    THEN [outcome |-> "restarted", checksum |-> sum,
          timers |-> StartAll(
              [i \in DOMAIN timers |->
                  IF \E j \in DOMAIN taskEntities : taskEntities[j] = timers[i].task
                  THEN timers[i] ELSE [timers[i] EXCEPT !.running = FALSE]],
              SelectSeq(taskEntities,
                        LAMBDA t : \A i \in DOMAIN timers :
                                      ~(timers[i].running /\ timers[i].task = t)))]
    ELSE [outcome |-> "unchanged", checksum |-> checksum, timers |-> timers]

\* if (newCronChecksum !== this.currentChecksum) { ... }: what the call leaves
\* in currentChecksum and cronTasks, given the decoded list and its fingerprint
Reconcile(taskEntities, sum, checksum, timers) ==
    IF sum # checksum
    THEN [outcome |-> "restarted", checksum |-> sum,
          timers |-> StartAll(StopAll(timers), taskEntities)]
    ELSE [outcome |-> "unchanged", checksum |-> checksum, timers |-> timers]

\* mutant: a call that ends in a decode error has stopped the tracked timers
checkActiveTasksStopFirst ==
    /\ IF getTasksReturns(storage, tasks)
       THEN \E taskEntities \in {getTasks(storage, tasks)} :
            \E sum \in {newCronChecksum(taskEntities)} :
            \E res \in {Reconcile(taskEntities, sum, currentChecksum, cronTasks)} :
                /\ Len(res.timers) <= MaxTimers
                /\ currentChecksum' = res.checksum
                /\ cronTasks' = res.timers
                /\ lastTick' = res.outcome
       ELSE /\ lastTick' = "threw"
            /\ cronTasks' = StopAll(cronTasks)
            /\ UNCHANGED currentChecksum
    /\ cfgChanged' = FALSE
    /\ UNCHANGED <<diagnosticsPlugin, ticks, tasks, storage, notifier, taskManualExecution, runs, lastManual, nWrites>>

\* checkActiveTasks: what one call, run to its end, leaves in the reconciler
checkActiveTasks ==
    /\ IF getTasksReturns(storage, tasks)
       THEN \E taskEntities \in {getTasks(storage, tasks)} :
            \E sum \in {newCronChecksum(taskEntities)} :
            \E res \in {Reconcile(taskEntities, sum, currentChecksum, cronTasks)} :
                /\ Len(res.timers) <= MaxTimers
                /\ currentChecksum' = res.checksum
                /\ cronTasks' = res.timers
                /\ lastTick' = res.outcome
       ELSE /\ lastTick' = "threw"
            /\ UNCHANGED <<currentChecksum, cronTasks>>
    /\ cfgChanged' = FALSE
    /\ UNCHANGED <<diagnosticsPlugin, ticks, tasks, storage, notifier, taskManualExecution, runs, lastManual, nWrites>>

\* checkActiveTasks, called by the interval of start() or by start() itself
Tick ==
    /\ checkActiveTasks
    /\ UNCHANGED <<tasksCheckListener, intervals, lifecycle>>

\* start(): a new interval is scheduled, its handle replaces the one held in
\* tasksCheckListener (the previous interval is not cleared), and
\* checkActiveTasks is awaited
Start ==
    /\ Len(intervals) < MaxIntervals
    /\ intervals' = Append(intervals, TRUE)
    /\ tasksCheckListener' = Len(intervals) + 1
    /\ lifecycle' = [last |-> "start", written |-> FALSE,
                     prev |-> lifecycle.last, prevWritten |-> lifecycle.written]
    /\ checkActiveTasks

\* stop(): the interval whose handle is held is cleared and every tracked
\* timer is stopped; currentChecksum and the list cronTasks stay as they are
Stop ==
    /\ intervals' = IF tasksCheckListener # 0
                     THEN [intervals EXCEPT ![tasksCheckListener] = FALSE]
                     ELSE intervals
    /\ cronTasks' = StopAll(cronTasks)
    /\ lifecycle' = [last |-> "stop", written |-> FALSE,
                     prev |-> lifecycle.last, prevWritten |-> lifecycle.written]
    /\ UNCHANGED <<tasksCheckListener, diagnosticsPlugin, ticks, tasks, storage, notifier,
                   taskManualExecution, currentChecksum, lastTick, runs, lastManual,
                   cfgChanged, nWrites>>

\* startStop(enabled), the plugin switch of the settings page
startStop(enabled) == IF enabled THEN Start ELSE Stop

\* the callback of the interval with handle h fires
IntervalTick(h) ==
    /\ h \in DOMAIN intervals
    /\ intervals[h]
    /\ checkActiveTasks
    /\ UNCHANGED <<tasksCheckListener, intervals, lifecycle>>

\* the timers after the forEach of stop() calls is left by an exception of
\* the i-th call: the earlier ones are stopped, the later ones untouched, and
\* the i-th is stopped or not, whichever the timer library did before throwing
StopUntilThrow(timers, i, stoppedIt) ==
    [j \in DOMAIN timers |->
        IF j < i \/ (j = i /\ stoppedIt) THEN [timers[j] EXCEPT !.running = FALSE]
        ELSE timers[j]]

\* checkActiveTasks when the stop() of the i-th tracked timer throws: the
\* fingerprint is already replaced, and the exception leaves the function
TickStopThrows(i) ==
    /\ i \in DOMAIN cronTasks
    /\ getTasksReturns(storage, tasks)
    /\ \E sum \in {newCronChecksum(getTasks(storage, tasks))} :
          /\ sum # currentChecksum
          /\ currentChecksum' = sum
    /\ \E stoppedIt \in BOOLEAN : cronTasks' = StopUntilThrow(cronTasks, i, stoppedIt)
    /\ lastTick' = "threw"
    /\ cfgChanged' = FALSE
    /\ UNCHANGED <<tasksCheckListener, intervals, lifecycle, diagnosticsPlugin, ticks, tasks, storage, notifier, taskManualExecution, runs, lastManual, nWrites>>

----------------------------------------------------------------------------
(* checkActiveTasks on the event loop: a call runs up to its next await,    *)
(* and goes on from there in a later job.                                   *)

\* mutant: getTasks waits for the storage, so its await ends in a later task
\* of the event loop
AwaitKindIo(pc) == IF pc = "compare" THEN "io" ELSE "microtask"

\* what the awaits of checkActiveTasks wait for: getTasks and startTaskCron
\* are async functions without an await of their own, so the promise awaited
\* is already resolved and the call goes on in a microtask
AwaitKind(pc) == "microtask"

\* the microtask queue is empty: the event loop may take its next task (a
\* timer callback, a write of the settings page)
NoMicrotaskPending ==
    \A i \in DOMAIN ticks : AwaitKind(ticks[i].pc) # "microtask"

\* a call of checkActiveTasks at const taskEntities = await this.getTasks():
\* getTasks has run and the call waits
TickFrame(kind, taskEntities) ==
    [kind |-> kind, pc |-> "compare", taskEntities |-> taskEntities, next |-> 1,
     oldCount |-> 0]

\* the interval of start() fires: checkActiveTasks up to its first await
TickCall ==
    /\ NoMicrotaskPending
    /\ Len(ticks) < MaxOverlap
    /\ getTasksReturns(storage, tasks)
    /\ ticks' = Append(ticks, TickFrame("interval", getTasks(storage, tasks)))
    /\ cfgChanged' = FALSE
    /\ UNCHANGED <<tasksCheckListener, intervals, lifecycle, diagnosticsPlugin, tasks, storage, notifier, taskManualExecution,
                   currentChecksum, cronTasks, lastTick, runs, lastManual, nWrites>>

\* checkActiveTasks from one await to the next, or to its end (frame <<>>):
\* the comparison, the stops and the first startTaskCron, then one
\* startTaskCron per resumption
TickStep(frame, checksum, timers) ==
    IF frame.pc = "compare"
    THEN IF newCronChecksum(frame.taskEntities) # checksum
         THEN IF frame.taskEntities = <<>>
              THEN [frame |-> <<>>, outcome |-> "restarted",
                    checksum |-> newCronChecksum(frame.taskEntities),
                    timers |-> StopAll(timers)]
              ELSE [frame |-> <<[frame EXCEPT !.pc = "start", !.next = 2,
                                              !.oldCount = Len(timers)]>>,
                    outcome |-> "restarting",
                    checksum |-> newCronChecksum(frame.taskEntities),
                    timers |-> startTaskCron(StopAll(timers), frame.taskEntities[1])]
         ELSE [frame |-> <<>>, outcome |-> "unchanged", checksum |-> checksum,
               timers |-> timers]
    ELSE IF frame.next > Len(frame.taskEntities)
         THEN [frame |-> <<>>, outcome |-> "restarted", checksum |-> checksum,
               timers |-> timers]
         ELSE [frame |-> <<[frame EXCEPT !.next = @ + 1]>>, outcome |-> "restarting",
               checksum |-> checksum,
               timers |-> startTaskCron(timers, frame.taskEntities[frame.next])]

\* the i-th call of checkActiveTasks in progress goes on after its await
TickResume(i) ==
    /\ i \in DOMAIN ticks
    /\ \E res \in {TickStep(ticks[i], currentChecksum, cronTasks)} :
          /\ Len(res.timers) <= MaxTimers
          /\ currentChecksum' = res.checksum
          /\ cronTasks' = res.timers
          /\ ticks' = SubSeq(ticks, 1, i - 1) \o res.frame \o SubSeq(ticks, i + 1, Len(ticks))
          /\ lastTick' = IF res.frame = <<>> THEN res.outcome ELSE lastTick
    /\ UNCHANGED <<tasksCheckListener, intervals, lifecycle, diagnosticsPlugin, tasks, storage, notifier, taskManualExecution, runs,
                   lastManual, cfgChanged, nWrites>>

----------------------------------------------------------------------------
(* Configuration writes (the settings page).                               *)

\* the task-name lists the multiple-choice setting can hold
NameLists == { <<>> } \cup { <<a>> : a \in Names }
               \cup { p \in Names \X Names : p[1] # p[2] }

\* the raw values the settings page stores under a key of getSettings
WellFormed(field) ==
    CASE field = "taskEnabledKey" -> {"true", "false"}
      [] field = "taskCronKey"    -> {"", CronA, CronB, CronBad}
      [] field = "taskSkipNotify" -> {"true", "false"}
      [] OTHER -> {}

\* raw values that are not JSON
Malformed == {""}

\* tasks: the user adds, removes or reorders task names
SetTasks(names) ==
    /\ nWrites < MaxWrites
    /\ names # tasks
    /\ tasks' = names
    /\ cfgChanged' = TRUE
    /\ nWrites' = nWrites + 1
    /\ lifecycle' = [lifecycle EXCEPT !.written = TRUE]
    /\ UNCHANGED <<tasksCheckListener, intervals, diagnosticsPlugin, ticks, storage, notifier, taskManualExecution, currentChecksum, cronTasks,
                   lastTick, runs, lastManual>>

\* putSetting of one key of one task
PutSetting(taskName, field, raw) ==
    /\ nWrites < MaxWrites
    /\ storage[getTaskKeys(taskName)[field]] # raw
    /\ storage' = [storage EXCEPT ![getTaskKeys(taskName)[field]] = raw]
    /\ cfgChanged' = TRUE
    /\ nWrites' = nWrites + 1
    /\ lifecycle' = [lifecycle EXCEPT !.written = TRUE]
    /\ UNCHANGED <<tasksCheckListener, intervals, diagnosticsPlugin, ticks, tasks, notifier, taskManualExecution, currentChecksum, cronTasks,
                   lastTick, runs, lastManual>>

----------------------------------------------------------------------------
(* What the collaborators answer: entity states and registry data.         *)

\* new DiagnosticsPlugin(): validate and warnStep are the plugin's own methods
\* (no wrapper installed), and no test device is set.  A wrapper that
\* runValidate installs is named by the run and the target it was made for;
\* validate holds the wrappers from the outermost to the innermost.
NewDiagnosticsPlugin == [validate |-> <<>>, warnStep |-> <<>>, testDevice |-> Null]

\* one element of haApi.getStatesData().data
Entity(id, class, unit, name, state, seen) ==
    [entity_id |-> id, device_class |-> class, unit_of_measurement |-> unit,
     friendly_name |-> name, state |-> state, last_reported |-> seen]

\* the states each entity of the model can be fetched in
EntitySnapshots(id) ==
    CASE id = "sensor.a" ->
            { Entity(id, "battery", "%", "Sensor A", st, Null) :
                 st \in {"5", "15", "30", "unavailable"} }
      [] id = "sensor.b" ->
            { Entity(id, "battery", "%", "Sensor B", st, Null) : st \in {"80"} }
      [] id = "binary_sensor.c" ->
            { Entity(id, "battery", Null, "Sensor C", st, Null) : st \in {"on", "off"} }
      [] id = "sensor.d" ->
            { Entity(id, Null, "d", "Filter D", st, Null) : st \in {"3", "10"} }
      [] OTHER ->
            { Entity(id, "problem", Null, "Problem P", st, seen) :
                 st \in {"on", "off", "unavailable"}, seen \in {"2024-01-01"} }

\* the entity is fetched in one of its states, or is not in the answer
Fetched(id) == { <<>> } \cup { <<e>> : e \in EntitySnapshots(id) }

\* the answers of getStatesData: the fetched entities in the order of the data
StatusLists ==
    { a \o b \o c \o d \o p :
        a \in Fetched("sensor.a"), b \in Fetched("sensor.b"),
        c \in Fetched("binary_sensor.c"), d \in Fetched("sensor.d"),
        p \in Fetched("binary_sensor.p") }

\* Number(state): the number a numeric string denotes, NaN for any other
Number(str) ==
    IF str \in DOMAIN NumberLiterals THEN [nan |-> FALSE, n |-> NumberLiterals[str]]
    ELSE [nan |-> TRUE, n |-> 0]

\* mutant: < read as <=
LtInclusive(x, k) == ~x.nan /\ x.n <= k

\* x < k and x <= k of JavaScript: false when x is NaN
Lt(x, k) == ~x.nan /\ x.n < k
Le(x, k) == ~x.nan /\ x.n <= k

\* Array.prototype.includes
Includes(list, item) == \E i \in DOMAIN list : list[i] = item

\* String.prototype.startsWith
StartsWith(str, prefix) ==
    Len(str) >= Len(prefix) /\ SubSeq(str, 1, Len(prefix)) = prefix

\* new RegExp(regex).test(str) for a pattern of literal characters and dots:
\* the pattern occurs somewhere in str, a dot standing for any character
RegExpTest(regex, str) ==
    \E at \in 0..(Len(str) - Len(regex)) :
        \A j \in 1..Len(regex) :
            \/ SubSeq(regex, j, j) = "."
            \/ SubSeq(regex, j, j) = SubSeq(str, at + j, at + j)

\* moment(lastUpdate).locale(datesLocale).fromNow(): a text that depends on
\* the clock only
FromNow(date) == "some time ago"

\* the versions of a package in the npm registry, and semver.compare by rank
Versions == {"1.0.0", "1.1.0", "1.2.0-beta.1"}
SemverRank(version) ==
    CASE version = "1.0.0" -> 1
      [] version = "1.1.0" -> 2
      [] OTHER -> 3

\* data of registry.npmjs.org for one package: every version is published,
\* dist-tags name the latest and, possibly, another version as the beta
RegistryData ==
    { [error |-> FALSE, versions |-> Versions, distTags |-> [latest |-> t[1], beta |-> t[2]]] :
        t \in { u \in Versions \X (Versions \cup {Null}) : u[1] # u[2] } }

\* the registry answers { error: ... } for the package, or the fetch fails:
\* checkNpmUpdate returns undefined
NoRegistryData ==
    [error |-> TRUE, versions |-> {}, distTags |-> [latest |-> Null, beta |-> Null]]

\* plugin.info.version of the installed plugins: the core plugin runs a beta
InstalledVersion(pluginId) == IF pluginId = "pCore" THEN "1.2.0-beta.1" ELSE "1.0.0"

\* Object.keys(getSystemState()) filtered to the plugins, as package names
getAllPlugins == <<"pSelf", "pCore", "pOther">>

----------------------------------------------------------------------------
(* The executor: executeTask.                                              *)

MaxHits == 1

\* what the collaborators hand to one run's branch: statuses = the answer of
\* getStatesData, registry = the npm data of every package, hits = the lines
\* a report of the other types lists (for TomorrowEventsHa the events of
\* tomorrow), later = the events of the wider calendar window, faulty = the
\* devices and packages whose reboot, reload or installNpm call rejects,
\* hanging = those whose call never settles
NoInputs ==
    [statuses |-> <<>>, registry |-> [pkg \in {} |-> Null], hits |-> 0, later |-> 0,
     faulty |-> {}, hanging |-> {}, info |-> [pkg \in {} |-> Null], cluster |-> <<>>]

\* plugins.getPluginInfo(pluginName): the counters of one plugin
PluginInfo ==
    [rpcObjects : 0..MaxCount, clientsCount : 0..1, pendingResults : 0..1]

\* clusterFork.getClusterWorkers(): the workers in the order of Object.values,
\* each with the device ids of its forks; in the inputs of a run `cluster` is
\* <<>> on a host with no cluster-fork component, else <<the workers>>
ForkLists == { <<>>, <<"dCam2">>, <<"dCam2", "dCam1">>, <<"dGone", "dCam1">> }
ClusterWorkers ==
    { <<[name |-> "w1", forks |-> f1], [name |-> "w2", forks |-> f2],
        [name |-> "w3", forks |-> f3]>> : f1 \in ForkLists, f2 \in ForkLists, f3 \in ForkLists }

\* the answers a branch of the given type asks for, drawn from a world
InputsIn(world, task) ==
    CASE task.type \in {"ReportHaBatteryStatus", "ReportHaConsumables",
                        "ReportHaUnavailableEntities"} ->
            { [NoInputs EXCEPT !.statuses = st] : st \in world.statuses }
      [] task.type = "TomorrowEventsHa" ->
            { [NoInputs EXCEPT !.hits = h, !.later = l] : h \in 0..MaxHits, l \in 0..MaxHits }
      [] task.type = "ReportPluginsStatus" ->
            { [NoInputs EXCEPT !.info = i, !.cluster = c] :
                 i \in world.info, c \in world.cluster }
      [] task.type \in {"RestartCameras", "RestartPlugins"} ->
            { [NoInputs EXCEPT !.faulty = f, !.hanging = h] :
                 f \in world.faulty, h \in world.hanging }
      [] task.type = "UpdatePlugins" ->
            { [NoInputs EXCEPT !.registry = reg, !.faulty = f, !.hanging = h] :
                 reg \in world.registry, f \in world.faulty, h \in world.hanging }
      [] OTHER -> { NoInputs }

Packages == { PackageOf(id) : id \in PluginIds }

\* a small world: a battery sensor and a problem sensor, one registry state
\* per package out of two
BasicWorld ==
    [statuses |-> { a \o p : a \in { <<>> } \cup { <<e>> : e \in { x \in EntitySnapshots("sensor.a") : x.state \in {"5", "15"} } },
                            p \in { <<>> } \cup { <<e>> : e \in { x \in EntitySnapshots("binary_sensor.p") : x.state = "unavailable" } } },
     registry |-> [Packages -> { d \in RegistryData : d.distTags.latest = "1.1.0"
                                                        /\ d.distTags.beta # "1.0.0" }],
     faulty |-> { {} }, hanging |-> { {} },
     \* every plugin with the same counters, no cluster-fork component
     info |-> { [pkg \in Packages |-> i] :
                  i \in { j \in PluginInfo : j.rpcObjects = j.clientsCount
                                                /\ j.pendingResults = 0 } },
     cluster |-> { <<>> }]

BranchInputs(task) == InputsIn(BasicWorld, task)

RECURSIVE Lines(_, _)
Lines(line, n) == IF n = 0 THEN "" ELSE line \o "\n" \o Lines(line, n - 1)

divider == "-------------"

\* an external call a run made
Call(op, target, detail) == [op |-> op, target |-> target, detail |-> detail]

\* let message = ``; let priority; let forceStop; let actionsToDefer, and the
\* locals of the branches: trackedEntries, stats, and atLeast1 for
\* atLeast1LowBattery, atLeast1Unavailable, atLeast1Problem and somePluginOutdated
BranchStart ==
    [message |-> "", priority |-> Undefined, forceStop |-> FALSE,
     actionsToDefer |-> "none", calls |-> <<>>, trackedEntries |-> <<>>,
     atLeast1 |-> FALSE, stats |-> <<>>, outcome |-> "returned"]

\* mutant: a rejection of the call is swallowed
AwaitedGuarded(acc, call, in) ==
    [acc EXCEPT !.calls = Append(@, call),
                !.outcome = IF call.target \in in.hanging THEN "hung" ELSE @]

\* an awaited call on a target: it is made, and it returns, rejects or never
\* settles; a rejection leaves executeTask
Awaited(acc, call, in) ==
    [acc EXCEPT !.calls = Append(@, call),
                !.outcome = IF call.target \in in.faulty THEN "threw"
                            ELSE IF call.target \in in.hanging THEN "hung"
                            ELSE @]

\* a property of undefined is read: TypeError
Throws(acc) == [acc EXCEPT !.outcome = "threw"]

\* ReportHaBatteryStatus: the callback of statuses.data.forEach
BatteryEntity(acc, entity, task) ==
    IF ~Includes(task.entitiesToExclude, entity.entity_id) /\ entity.device_class = "battery"
    THEN IF StartsWith(entity.entity_id, "sensor.")
         THEN IF Includes(task.entitiesToAlwaysReport, entity.entity_id)
              THEN [acc EXCEPT
                      !.priority = IF Lt(Number(entity.state), 10) THEN "1" ELSE @,
                      !.trackedEntries = Append(@, entity.friendly_name \o " (" \o entity.state \o "%)")]
              ELSE IF Lt(Number(entity.state), task.batteryThreshold)
              THEN [acc EXCEPT
                      !.priority = IF Lt(Number(entity.state), 10) THEN "1" ELSE @,
                      !.message = @ \o entity.friendly_name \o " (" \o entity.state \o "%)" \o "\n",
                      !.atLeast1 = TRUE]
              ELSE [acc EXCEPT
                      !.priority = IF Lt(Number(entity.state), 10) THEN "1" ELSE @]
         ELSE IF StartsWith(entity.entity_id, "binary_sensor.")
         THEN IF Includes(task.entitiesToAlwaysReport, entity.entity_id)
              THEN [acc EXCEPT !.trackedEntries = Append(@, entity.friendly_name)]
              ELSE IF entity.state = "on"
              THEN [acc EXCEPT !.priority = "1",
                               !.message = @ \o entity.friendly_name \o "\n",
                               !.atLeast1 = TRUE]
              ELSE acc
         ELSE acc
    ELSE acc

RECURSIVE BatteryEach(_, _, _, _)
BatteryEach(acc, statuses, i, task) ==
    IF i > Len(statuses) THEN acc
    ELSE BatteryEach(BatteryEntity(acc, statuses[i], task), statuses, i + 1, task)

\* mutant: no all-ok line
BatteryFinishSilent(acc) ==
    [acc EXCEPT !.message =
        @ \o (IF Len(acc.trackedEntries) > 0
              THEN (IF acc.atLeast1 THEN divider \o "\n" ELSE "")
                   \o JoinStrings([i \in DOMAIN acc.trackedEntries |->
                                      acc.trackedEntries[i] \o "\n"], "")
              ELSE "")]

\* mutant: the tracked section only when a battery is low
BatteryFinishLowOnly(acc) ==
    [acc EXCEPT !.message =
        @ \o (IF Len(acc.trackedEntries) > 0 /\ acc.atLeast1
              THEN divider \o "\n"
                   \o JoinStrings([i \in DOMAIN acc.trackedEntries |->
                                      acc.trackedEntries[i] \o "\n"], "")
              ELSE "")
          \o (IF ~acc.atLeast1 THEN "All batteries ok\n" ELSE "")]

\* ReportHaBatteryStatus after the forEach: the tracked section, or the all-ok line
BatteryFinish(acc) ==
    [acc EXCEPT !.message =
        @ \o (IF Len(acc.trackedEntries) > 0
              THEN (IF acc.atLeast1 THEN divider \o "\n" ELSE "")
                   \o JoinStrings([i \in DOMAIN acc.trackedEntries |->
                                      acc.trackedEntries[i] \o "\n"], "")
              ELSE "")
          \o (IF ~acc.atLeast1 /\ Len(acc.trackedEntries) = 0
              THEN "All batteries ok\n" ELSE "")]

ReportHaBatteryStatus(task, in) ==
    BatteryFinish(BatteryEach(
        [BranchStart EXCEPT !.calls = <<Call("getStatesData", Null, Null)>>],
        in.statuses, 1, task))

\* ReportHaUnavailableEntities: the callback of statuses.data.forEach
UnavailableEntity(acc, entity, task) ==
    IF /\ entity.state = "unavailable"
       /\ IF Len(task.entitiesToAlwaysReport) > 0
          THEN \E i \in DOMAIN task.entitiesToAlwaysReport :
                  RegExpTest(task.entitiesToAlwaysReport[i], entity.entity_id)
          ELSE TRUE
       /\ IF Len(task.entitiesToExclude) > 0
          THEN \A i \in DOMAIN task.entitiesToExclude :
                  ~RegExpTest(task.entitiesToExclude[i], entity.entity_id)
          ELSE TRUE
    THEN [acc EXCEPT
            !.message = @ \o entity.friendly_name
                          \o (IF entity.last_reported # Null
                              THEN ": " \o FromNow(entity.last_reported) ELSE "")
                          \o "\n",
            !.atLeast1 = TRUE]
    ELSE acc

RECURSIVE UnavailableEach(_, _, _, _)
UnavailableEach(acc, statuses, i, task) ==
    IF i > Len(statuses) THEN acc
    ELSE UnavailableEach(UnavailableEntity(acc, statuses[i], task), statuses, i + 1, task)

\* mutant: the report is sent also when it is empty
UnavailableFinishNever(acc) == [acc EXCEPT !.forceStop = FALSE]

\* if (!atLeast1Unavailable) forceStop = true
UnavailableFinish(acc) == [acc EXCEPT !.forceStop = ~acc.atLeast1]

ReportHaUnavailableEntities(task, in) ==
    UnavailableFinish(UnavailableEach(
        [BranchStart EXCEPT !.calls = <<Call("getStatesData", Null, Null)>>],
        in.statuses, 1, task))

\* ReportHaConsumables: the callback of statuses.data.forEach
ConsumableEntity(acc, entity, task) ==
    IF Includes(task.entitiesToAlwaysReport, entity.entity_id)
    THEN IF entity.unit_of_measurement = "%"
         THEN IF Lt(Number(entity.state), 10)
              THEN [acc EXCEPT
                      !.message = @ \o entity.friendly_name \o ": " \o entity.state \o " %\n",
                      !.atLeast1 = TRUE]
              ELSE acc
         ELSE IF entity.unit_of_measurement = "d"
         THEN IF Le(Number(entity.state), 3)
              THEN [acc EXCEPT
                      !.message = @ \o entity.friendly_name \o ": " \o entity.state \o " days\n",
                      !.atLeast1 = TRUE]
              ELSE acc
         ELSE IF entity.device_class = "problem"
         THEN IF entity.state = "on"
              THEN [acc EXCEPT !.message = @ \o entity.friendly_name \o "\n",
                               !.atLeast1 = TRUE]
              ELSE acc
         ELSE acc
    ELSE acc

RECURSIVE ConsumableEach(_, _, _, _)
ConsumableEach(acc, statuses, i, task) ==
    IF i > Len(statuses) THEN acc
    ELSE ConsumableEach(ConsumableEntity(acc, statuses[i], task), statuses, i + 1, task)

\* if (!atLeast1Problem) forceStop = true; else priority = 1
ConsumableFinish(acc) ==
    [acc EXCEPT !.forceStop = ~acc.atLeast1,
                !.priority = IF acc.atLeast1 THEN "1" ELSE @]

ReportHaConsumables(task, in) ==
    ConsumableFinish(ConsumableEach(
        [BranchStart EXCEPT !.calls = <<Call("getStatesData", Null, Null)>>],
        in.statuses, 1, task))

\* mutant: this plugin is restarted in the loop like any other
RestartPluginsAtOnce(acc, pluginId, in) ==
    [acc EXCEPT
        !.actionsToDefer = IF PackageOf(pluginId) = scryptedName THEN "restartSelf" ELSE @,
        !.calls = Append(@, Call("restartPlugin", PackageOf(pluginId), Null)),
        !.message = @ \o "[" \o PackageOf(pluginId) \o "]: Restarted\n"]

\* RestartPlugins: the body of for (const pluginId of plugins); the deferred
\* action is recorded where shouldSelfRestart is set
RestartPluginsPlugin(acc, pluginId, in) ==
    IF ~Known(pluginId) THEN Throws(acc)          \* plugin.info of undefined
    ELSE IF PackageOf(pluginId) \in {scryptedName, "@scrypted/core"}
    THEN [acc EXCEPT
            !.actionsToDefer = "restartSelf",
            !.message = @ \o "[" \o PackageOf(pluginId) \o "]: Restarted\n"]
    ELSE IF Awaited(acc, Call("restartPlugin", PackageOf(pluginId), Null), in).outcome
               # "returned"
    THEN Awaited(acc, Call("restartPlugin", PackageOf(pluginId), Null), in)
    ELSE [Awaited(acc, Call("restartPlugin", PackageOf(pluginId), Null), in) EXCEPT
            !.message = @ \o "[" \o PackageOf(pluginId) \o "]: Restarted\n"]

RECURSIVE RestartPluginsEach(_, _, _, _)
RestartPluginsEach(acc, plugins, i, in) ==
    IF i > Len(plugins) \/ acc.outcome # "returned" THEN acc
    ELSE RestartPluginsEach(RestartPluginsPlugin(acc, plugins[i], in), plugins, i + 1, in)

RestartPlugins(task, in) == RestartPluginsEach(BranchStart, task.plugins, 1, in)

\* the version with the highest rank of a non-empty set
NewestOf(versions) ==
    CHOOSE v \in versions : \A w \in versions : SemverRank(w) <= SemverRank(v)

\* Object.values(data.versions).sort(semver.compare).reverse()
RECURSIVE SortedDescending(_)
SortedDescending(versions) ==
    IF versions = {} THEN <<>>
    ELSE <<NewestOf(versions)>> \o SortedDescending(versions \ {NewestOf(versions)})

\* the tag the loop over Object.entries(data['dist-tags']) leaves on a version
TagOf(data, version) ==
    IF data.distTags.beta = version THEN "beta"
    ELSE IF data.distTags.latest = version THEN "latest"
    ELSE ""

\* checkNpmUpdate: the versions, newest first, each with its tag
checkNpmUpdate(data) ==
    [i \in DOMAIN SortedDescending(data.versions) |->
        [version |-> SortedDescending(data.versions)[i],
         tag |-> TagOf(data, SortedDescending(data.versions)[i])]]

\* versions.find(version => version.tag === 'latest')
FindLatest(versions) ==
    versions[CHOOSE i \in DOMAIN versions :
                /\ versions[i].tag = "latest"
                /\ \A j \in 1..(i - 1) : versions[j].tag # "latest"]

\* pluginHasUpdate: let versionToUse = versions[0]; if its tag is beta and
\* beta is not asked for, the version tagged latest
versionToUse(versions, beta) ==
    IF versions[1].tag = "beta" /\ ~beta THEN FindLatest(versions) ELSE versions[1]

\* pluginHasUpdate(logger, pluginName, currentVersion, beta)
pluginHasUpdate(data, currentVersion, beta) ==
    IF data.error     \* if (!versions) return { newVersion, versions, isBeta: false }
    THEN [newVersion |-> Undefined, versions |-> <<>>, isBeta |-> FALSE]
    ELSE [newVersion |-> IF versionToUse(checkNpmUpdate(data), beta).version # currentVersion
                         THEN versionToUse(checkNpmUpdate(data), beta).version
                         ELSE Undefined,
          versions |-> checkNpmUpdate(data),
          isBeta |-> versionToUse(checkNpmUpdate(data), beta).tag = "beta"]

\* updatePlugin returns { newVersion, isBeta, versions }; with no versions it
\* logs 'No data found' and returns undefined
updatePluginReturnsResult(data) == ~data.error

\* finalizeVersion(isBeta)
finalizeVersion(isBeta) == (IF isBeta THEN " (beta)" ELSE "") \o "\n"

\* versions.find(item => item.version === version)?.tag === 'beta'
InstalledIsBeta(versions, version) ==
    \E i \in DOMAIN versions : versions[i].version = version /\ versions[i].tag = "beta"

\* updatePlugin with a new version: await plugins.installNpm(pluginName, newVersion)
InstallNpm(acc, pluginId, task, in) ==
    Awaited([acc EXCEPT
                !.calls = Append(@, Call("checkNpmUpdate", PackageOf(pluginId), Null))],
            Call("installNpm", PackageOf(pluginId),
                 pluginHasUpdate(in.registry[PackageOf(pluginId)],
                                 InstalledVersion(pluginId), task.beta).newVersion),
            in)

\* UpdatePlugins: the body of for (const pluginId of plugins), with the
\* installNpm call of updatePlugin
UpdatePluginsPlugin(acc, pluginId, task, in) ==
    IF ~Known(pluginId) THEN Throws(acc)          \* plugin.info of undefined
    \* const { newVersion, isBeta, versions } = await updatePlugin(...): the
    \* destructuring of undefined is a TypeError
    ELSE IF ~updatePluginReturnsResult(in.registry[PackageOf(pluginId)])
    THEN Throws([acc EXCEPT
                    !.calls = Append(@, Call("checkNpmUpdate", PackageOf(pluginId), Null))])
    ELSE IF pluginHasUpdate(in.registry[PackageOf(pluginId)], InstalledVersion(pluginId), task.beta).newVersion
          # Undefined
    THEN IF InstallNpm(acc, pluginId, task, in).outcome # "returned"
         THEN InstallNpm(acc, pluginId, task, in)
         ELSE [InstallNpm(acc, pluginId, task, in) EXCEPT
            !.message = @ \o "[" \o PackageOf(pluginId) \o "]: Updated "
                          \o InstalledVersion(pluginId) \o " -> "
                          \o pluginHasUpdate(in.registry[PackageOf(pluginId)],
                                             InstalledVersion(pluginId), task.beta).newVersion
                          \o finalizeVersion(
                                pluginHasUpdate(in.registry[PackageOf(pluginId)],
                                                InstalledVersion(pluginId), task.beta).isBeta)]
    ELSE [acc EXCEPT
            !.calls = Append(@, Call("checkNpmUpdate", PackageOf(pluginId), Null)),
            !.message = @ \o "[" \o PackageOf(pluginId) \o "]: Already on latest version "
                          \o InstalledVersion(pluginId)
                          \o finalizeVersion(
                                InstalledIsBeta(checkNpmUpdate(in.registry[PackageOf(pluginId)]),
                                                InstalledVersion(pluginId)))]

RECURSIVE UpdatePluginsEach(_, _, _, _, _)
UpdatePluginsEach(acc, plugins, i, task, in) ==
    IF i > Len(plugins) \/ acc.outcome # "returned" THEN acc
    ELSE UpdatePluginsEach(UpdatePluginsPlugin(acc, plugins[i], task, in),
                           plugins, i + 1, task, in)

\* mutant: the other plugins are all the known plugins, targets included
otherPluginsUnfiltered(task) == getAllPlugins

\* getAllPlugins().map(getDeviceByName).filter(plugin => !plugins.includes(plugin.id))
otherPlugins(task) ==
    SelectSeq(getAllPlugins, LAMBDA pluginId : ~Includes(task.plugins, pluginId))

\* if (checkAllPlugins): the body of for (const plugin of otherPlugins)
OtherPlugin(acc, pluginId, task, in) ==
    IF pluginHasUpdate(in.registry[PackageOf(pluginId)], InstalledVersion(pluginId), task.beta).newVersion
          # Undefined
    THEN [acc EXCEPT
            !.calls = Append(@, Call("checkNpmUpdate", PackageOf(pluginId), Null)),
            !.atLeast1 = TRUE,
            !.message = @ \o "[" \o PackageOf(pluginId) \o "]: New version available "
                          \o pluginHasUpdate(in.registry[PackageOf(pluginId)],
                                             InstalledVersion(pluginId), task.beta).newVersion
                          \o finalizeVersion(
                                pluginHasUpdate(in.registry[PackageOf(pluginId)],
                                                InstalledVersion(pluginId), task.beta).isBeta)]
    ELSE [acc EXCEPT
            !.calls = Append(@, Call("checkNpmUpdate", PackageOf(pluginId), Null))]

RECURSIVE OtherPluginsEach(_, _, _, _, _)
OtherPluginsEach(acc, plugins, i, task, in) ==
    IF i > Len(plugins) THEN acc
    ELSE OtherPluginsEach(OtherPlugin(acc, plugins[i], task, in), plugins, i + 1, task, in)

\* if (!somePluginOutdated) message += `\nAll the other plugins ...`
OtherPluginsFinish(acc) ==
    IF acc.atLeast1 THEN acc
    ELSE [acc EXCEPT !.message = @ \o "\nAll the other plugins are on the latest version\n"]

UpdatePlugins(task, in) ==
    IF UpdatePluginsEach(BranchStart, task.plugins, 1, task, in).outcome # "returned"
    THEN UpdatePluginsEach(BranchStart, task.plugins, 1, task, in)
    ELSE IF task.checkAllPlugins
    THEN OtherPluginsFinish(OtherPluginsEach(
             UpdatePluginsEach(BranchStart, task.plugins, 1, task, in),
             otherPlugins(task), 1, task, in))
    ELSE UpdatePluginsEach(BranchStart, task.plugins, 1, task, in)

\* RestartCameras: the body of for (const deviceId of devices); reboot of a
\* device without the Reboot interface is a call of undefined
RestartCamerasDevice(acc, deviceId, in) ==
    IF ~Known(deviceId) THEN Throws(acc)          \* device.name of undefined
    ELSE IF ~HasReboot(deviceId)
    THEN Throws([acc EXCEPT !.message = @ \o "[" \o DeviceName(deviceId) \o "] Restarted\n"])
    ELSE Awaited([acc EXCEPT !.message = @ \o "[" \o DeviceName(deviceId) \o "] Restarted\n"],
                 Call("reboot", deviceId, Null), in)

RECURSIVE RestartCamerasEach(_, _, _, _)
RestartCamerasEach(acc, devices, i, in) ==
    IF i > Len(devices) \/ acc.outcome # "returned" THEN acc
    ELSE RestartCamerasEach(RestartCamerasDevice(acc, devices[i], in), devices, i + 1, in)

RestartCameras(task, in) == RestartCamerasEach(BranchStart, task.devices, 1, in)

----------------------------------------------------------------------------
(* ReportPluginsStatus: getPluginStats and the text of the snapshot.       *)

\* getRpcData: one { name, count } per plugin of getAllPlugins(), in its order
RpcData(in, field) ==
    [i \in DOMAIN getAllPlugins |->
        [name |-> PackageOf(getAllPlugins[i]),
         count |-> in.info[PackageOf(getAllPlugins[i])][field]]]

\* .filter(p => !!p.count)
NonZero(list) == SelectSeq(list, LAMBDA p : p.count # 0)

\* where Array.prototype.sort with (a, b) => b.count - a.count puts an item
\* among items already in order: after those that count at least as much
\* (the sort is stable)
InsertByCount(sorted, item) ==
    SubSeq(sorted, 1, Cardinality({ i \in DOMAIN sorted : sorted[i].count >= item.count }))
    \o <<item>>
    \o SubSeq(sorted, Cardinality({ i \in DOMAIN sorted : sorted[i].count >= item.count }) + 1,
              Len(sorted))

\* .sort((a, b) => b.count - a.count)
RECURSIVE SortByCount(_)
SortByCount(list) ==
    IF list = <<>> THEN <<>>
    ELSE InsertByCount(SortByCount(SubSeq(list, 1, Len(list) - 1)), list[Len(list)])

\* .slice(0, maxStats)
Slice(list, maxStats) == SubSeq(list, 1, IF maxStats < Len(list) THEN maxStats ELSE Len(list))

\* x.filter(p => !!p.count).sort((a, b) => b.count - a.count).slice(0, maxStats)
TopByCount(list, maxStats) == Slice(SortByCount(NonZero(list)), maxStats)

\* the fork ids of all workers, in the order of the two for loops
RECURSIVE ForkIds(_, _)
ForkIds(workers, i) ==
    IF i > Len(workers) THEN <<>> ELSE workers[i].forks \o ForkIds(workers, i + 1)

\* sdk.systemManager.getDeviceById(id)?.name || 'Unknown Device'
ForkDeviceName(id) == IF Known(id) THEN DeviceName(id) ELSE "Unknown Device"

\* the fork ids with a devicesData entry, in the order the entries are made:
\* each id where it first occurs
RECURSIVE FirstForks(_, _)
FirstForks(ids, i) ==
    IF i > Len(ids) THEN <<>>
    ELSE (IF \E j \in 1..(i - 1) : ids[j] = ids[i] THEN <<>> ELSE <<ids[i]>>)
         \o FirstForks(ids, i + 1)

\* Object.values(devicesData): per fork id its device name and the number
\* of forks with that id (d.count++)
devicesData(workers) ==
    [k \in DOMAIN FirstForks(ForkIds(workers, 1), 1) |->
        [name |-> ForkDeviceName(FirstForks(ForkIds(workers, 1), 1)[k]),
         count |-> Cardinality({ i \in DOMAIN ForkIds(workers, 1) :
                                    ForkIds(workers, 1)[i] = FirstForks(ForkIds(workers, 1), 1)[k] })]]

\* clustersInfo.map(cluster => ({ name, count: cluster.forks.length }))
workersData(workers) ==
    [i \in DOMAIN workers |-> [name |-> workers[i].name, count |-> Len(workers[i].forks)]]

\* getPluginStats(maxStats): the count sections of the snapshot; cluster is
\* set (a one-element sequence here) only with a cluster-fork component
getPluginStats(maxStats, in) ==
    [rpcObjects |-> TopByCount(RpcData(in, "rpcObjects"), maxStats),
     connections |-> TopByCount(RpcData(in, "clientsCount"), maxStats),
     pendingResults |-> TopByCount(RpcData(in, "pendingResults"), maxStats),
     cluster |-> IF in.cluster = <<>> THEN <<>>
                 ELSE <<[workers |-> Slice(workersData(in.cluster[1]), maxStats),
                         devices |-> Slice(devicesData(in.cluster[1]), maxStats)]>>]

\* items.forEach(item => message += `${item.name}: ${item.count}\n`)
StatLines(items) ==
    JoinStrings([i \in DOMAIN items |-> items[i].name \o ": " \o ToString(items[i].count) \o "\n"], "")

\* getStorageInfo: what the settings of Scrypted NVR say
freeSpace == "1/2 TB (50.0%)"
recordingCameras == "2"

\* the ReportPluginsStatus branch on a host with no detection plugin, no
\* streaming plugin and no detector to benchmark
StatsText(stats) ==
    "[Benchmark]\n" \o divider \o "\n"
    \o "[General]\n"
    \o "Active object detection sessions: 0\n"
    \o "Active motion detection sessions: 0\n"
    \o "Active stream sessions: 0\n"
    \o "Storage usage: " \o freeSpace \o "\n"
    \o "Recording cameras: " \o recordingCameras \o "\n"
    \o divider \o "\n"
    \o "[RPC Objects]\n" \o StatLines(stats.rpcObjects) \o divider \o "\n"
    \o "[Pending Results]\n" \o StatLines(stats.pendingResults) \o divider \o "\n"
    \o (IF Len(stats.connections) # 0
        THEN "[Connections]\n" \o StatLines(stats.connections) \o divider \o "\n"
        ELSE "")
    \o (IF stats.cluster # <<>>
        THEN "[Workers]\n" \o StatLines(stats.cluster[1].workers) \o divider \o "\n"
             \o "[Devices]\n" \o StatLines(stats.cluster[1].devices)
        ELSE "")

ReportPluginsStatus(task, in) ==
    [BranchStart EXCEPT
        !.calls = <<Call("getPluginStats", Null, ToString(task.maxStats))>>,
        !.stats = <<getPluginStats(task.maxStats, in)>>,
        !.message = StatsText(getPluginStats(task.maxStats, in))]

\* `${event.summary} - ${moment(event.start, 'YYYY-MM-DD')...fromNow()}`
EventLine == "Event - " \o FromNow("start")

\* mutant: the chain ends in a plain else, so that a task without one of the
\* ten types is run as RestartScrypted
BranchDefaulting(task, in) ==
    [BranchStart EXCEPT !.message = "Scrypted restarted", !.actionsToDefer = "restartScrypted"]

\* the if / else-if chain on task.type: the values it leaves in message,
\* priority, forceStop and actionsToDefer, and the calls it made
Branch(task, in) ==
    CASE task.type = "ReportHaBatteryStatus" -> ReportHaBatteryStatus(task, in)
      [] task.type = "ReportHaUnavailableEntities" -> ReportHaUnavailableEntities(task, in)
      [] task.type = "ReportHaConsumables" -> ReportHaConsumables(task, in)
      [] task.type = "TomorrowEventsHa" ->
           [BranchStart EXCEPT
               !.calls = <<Call("getCalendarEvents", task.calendarEntity, "tomorrow"),
                           Call("getCalendarEvents", task.calendarEntity, "future")>>,
               !.message = Lines(EventLine, in.hits)
                             \o (IF in.later > 0 /\ in.hits > 0 THEN divider \o "\n" ELSE "")
                             \o Lines(EventLine, in.later),
               !.forceStop = (in.hits = 0 /\ in.later = 0),
               !.priority = IF in.hits > 0 THEN "1" ELSE Undefined]
      [] task.type = "RestartScrypted" ->
           [BranchStart EXCEPT !.message = "Scrypted restarted",
                               !.actionsToDefer = "restartScrypted"]
      [] task.type = "RestartPlugins" -> RestartPlugins(task, in)
      [] task.type = "UpdatePlugins" -> UpdatePlugins(task, in)
      [] task.type = "RestartCameras" -> RestartCameras(task, in)
      [] task.type = "ReportPluginsStatus" -> ReportPluginsStatus(task, in)
      [] OTHER -> BranchStart

\* mutant: the default notifier is a target next to the additional ones
ResolveNotifiersBoth(task, forceStop, defaultNotifier) ==
    IF ~task.skipNotify /\ ~forceStop
    THEN task.additionalNotifiers
            \o (IF defaultNotifier # Null THEN <<defaultNotifier>> ELSE <<>>)
    ELSE <<>>

\* mutant: forceStop is not looked at
ResolveNotifiersDespiteStop(task, forceStop, defaultNotifier) ==
    IF ~task.skipNotify
    THEN IF Len(task.additionalNotifiers) > 0 THEN task.additionalNotifiers
         ELSE IF defaultNotifier # Null THEN <<defaultNotifier>>
         ELSE <<>>
    ELSE <<>>

\* if (!skipNotify && !forceStop): the notifiers the run sends to
ResolveNotifiers(task, forceStop, defaultNotifier) ==
    IF ~task.skipNotify /\ ~forceStop
    THEN IF Len(task.additionalNotifiers) > 0 THEN task.additionalNotifiers
         ELSE IF defaultNotifier # Null THEN <<defaultNotifier>>
         ELSE <<>>
    ELSE <<>>

\* a call of executeTask(task) that has not reached its branch yet
NewRun(task) ==
    [task |-> task, pc |-> "dispatch", message |-> "", priority |-> Undefined,
     forceStop |-> FALSE, actionsToDefer |-> "none", calls |-> <<>>,
     trackedEntries |-> <<>>, atLeast1 |-> FALSE, stats |-> <<>>, inputs |-> NoInputs,
     notifiers |-> <<>>, sent |-> <<>>, deferredRan |-> FALSE,
     \* the calls of the iterations of the loop over the targets that are not
     \* over, each with the position of its target in the list
     pending |-> <<>>,
     \* the locals of the runValidate call in progress and, as history, what
     \* each finished call validated and returned
     target |-> 0, savedValidate |-> <<>>, savedWarnStep |-> <<>>, console |-> <<>>,
     testing |-> Null,
     okSteps |-> <<>>, warnSteps |-> <<>>, errorSteps |-> <<>>, validated |-> <<>>]

\* mutant: the deferred action comes before the notifications
AfterSendEager(run) ==
    IF run.actionsToDefer # "none" /\ ~run.deferredRan THEN "deferred"
    ELSE IF Len(run.sent) < Len(run.notifiers) THEN "notify"
    ELSE "done"

\* where a run goes once `sent` notifications are out
AfterSend(run) ==
    IF Len(run.sent) < Len(run.notifiers) THEN "notify"
    ELSE IF run.actionsToDefer # "none" THEN "deferred"
    ELSE "done"

----------------------------------------------------------------------------
(* The Diagnostics branch: runValidate, step by step.  One validation runs  *)
(* one step of the diagnostics plugin through diagnosticsPlugin.validate.   *)

\* the validate wrapper (and its console and warnStep) that the runValidate
\* call of run r for its target t installs
Wrapper(r, t) == [run |-> r, target |-> t]

\* the target after the devices: the system
SystemTarget(run) == Len(run.task.devices) + 1

\* what a validation checks: the device under testDevice, or the system
TargetName(run, t) == IF t = SystemTarget(run) THEN "System" ELSE run.task.devices[t]

\* the step outcomes of a validation: the step logs OK, the step calls
\* warnStep and logs OK, or the step fails
StepOutcomes == {"ok", "warn", "error"}

\* the runValidate call whose arrays a wrapper pushes to has not returned
Alive(rs, hook) ==
    /\ hook # <<>>
    /\ hook[1].run \in DOMAIN rs
    /\ rs[hook[1].run].target = hook[1].target
    /\ rs[hook[1].run].pc \in {"diagValidate", "diagEnd"}

\* okSteps.push / warnSteps.push / errorSteps.push of a wrapper's closure
Push(rs, hook, list, stepName) ==
    IF Alive(rs, hook)
    THEN [rs EXCEPT ![hook[1].run][list] = Append(@, stepName)]
    ELSE rs

\* the step ends: newConsole.log with the green or the red text, or
\* newConsole.error, of the console the step was started with, and the
\* warnStep hook installed when the step warns
Classify(rs, console, warnStep, outcome, stepName) ==
    CASE outcome = "ok" -> Push(rs, console, "okSteps", stepName)
      [] outcome = "error" -> Push(rs, console, "errorSteps", stepName)
      [] OTHER -> Push(Push(rs, warnStep, "warnSteps", stepName), console, "okSteps", stepName)

\* the text of the result of runValidate
ValidateText(warnSteps, errorSteps) ==
    IF Len(warnSteps) = 0 /\ Len(errorSteps) = 0 THEN "All good"
    ELSE (IF Len(warnSteps) > 0 THEN "Warnings: " \o JoinStrings(warnSteps, ",") ELSE "")
         \o (IF Len(errorSteps) > 0
             THEN (IF Len(warnSteps) > 0 THEN " - " ELSE "")
                  \o "Errors: " \o JoinStrings(errorSteps, ",")
             ELSE "")

\* diagnosticsPlugin.validate = async (...) => {...}: the call through the
\* hook sets warnStep in every wrapper on the way in and hands the innermost
\* wrapper's console to the plugin's own validate
StepStart(dp) ==
    IF dp.validate = <<>> THEN dp
    ELSE [dp EXCEPT !.warnStep = <<dp.validate[Len(dp.validate)]>>]

StepConsole(dp) ==
    IF dp.validate = <<>> THEN <<>> ELSE <<dp.validate[Len(dp.validate)]>>

\* the branch is over: the notifiers are resolved
Resolved(run) ==
    [run EXCEPT !.notifiers = ResolveNotifiers(run.task, run.forceStop, notifier)]

Finish(rs, r) ==
    [rs EXCEPT ![r] = [Resolved(rs[r]) EXCEPT !.pc = AfterSend(Resolved(rs[r]))]]

\* runValidate up to its first await, for target t of run r: the hooks are
\* saved and the wrapper installed; for a device testDevice is put, for the
\* system validateSystem starts its step at once
Begin(rs, dp, r, t) ==
    [runs |-> [rs EXCEPT ![r] = [@ EXCEPT
                  !.target = t,
                  !.savedValidate = dp.validate,
                  !.savedWarnStep = dp.warnStep,
                  !.okSteps = <<>>, !.warnSteps = <<>>, !.errorSteps = <<>>,
                  !.pc = IF t = SystemTarget(rs[r]) THEN "diagEnd" ELSE "diagValidate",
                  !.console = IF t = SystemTarget(rs[r])
                              THEN StepConsole([dp EXCEPT !.validate = <<Wrapper(r, t)>> \o @])
                              ELSE <<>>,
                  !.testing = IF t = SystemTarget(rs[r]) THEN "System" ELSE Null]],
     dp |-> IF t = SystemTarget(rs[r])
            THEN StepStart([dp EXCEPT !.validate = <<Wrapper(r, t)>> \o @])
            ELSE [dp EXCEPT !.validate = <<Wrapper(r, t)>> \o @,
                            !.testDevice = rs[r].task.devices[t]]]

\* the loop reaches target t: the next device, then the system if asked for
StartTarget(rs, dp, r, t) ==
    IF t <= Len(rs[r].task.devices)
    THEN IF ~Known(rs[r].task.devices[t])
         THEN [runs |-> [rs EXCEPT ![r].pc = "failed"], dp |-> dp]   \* device.name of undefined
         ELSE Begin(rs, dp, r, t)
    ELSE IF rs[r].task.runSystemDiagnostic
    THEN Begin(rs, dp, r, SystemTarget(rs[r]))
    ELSE [runs |-> Finish(rs, r), dp |-> dp]

\* executeTask of a Diagnostics task up to its first await
RunDiagnostics(r) ==
    /\ r \in DOMAIN runs
    /\ runs[r].pc = "dispatch"
    /\ runs[r].task.type = "Diagnostics"
    /\ \E next \in {StartTarget(runs, diagnosticsPlugin, r, 1)} :
          /\ runs' = next.runs
          /\ diagnosticsPlugin' = next.dp
    /\ UNCHANGED <<tasksCheckListener, intervals, lifecycle, tasks, storage, notifier, taskManualExecution, currentChecksum,
                   cronTasks, lastTick, lastManual, cfgChanged, nWrites, ticks>>

\* await diagnosticsPlugin.validateDevice(): the device under testDevice is
\* read and its step started through the validate hook installed by now
DiagValidate(r) ==
    /\ r \in DOMAIN runs
    /\ runs[r].pc = "diagValidate"
    /\ runs' = [runs EXCEPT ![r] = [@ EXCEPT
                   !.pc = "diagEnd",
                   !.console = StepConsole(diagnosticsPlugin),
                   !.testing = diagnosticsPlugin.testDevice]]
    /\ diagnosticsPlugin' = StepStart(diagnosticsPlugin)
    /\ UNCHANGED <<tasksCheckListener, intervals, lifecycle, tasks, storage, notifier, taskManualExecution, currentChecksum,
                   cronTasks, lastTick, lastManual, cfgChanged, nWrites, ticks>>

\* the run after its validation returned: the result text in the message,
\* and whether the device is rebooted
Reported(run, outcome) ==
    [run EXCEPT
        !.message = @ \o "[" \o (IF run.target = SystemTarget(run) THEN "System"
                                 ELSE DeviceName(run.task.devices[run.target]))
                      \o "]: " \o ValidateText(run.warnSteps, run.errorSteps),
        !.validated = Append(@, [target |-> TargetName(run, run.target),
                                 device |-> run.testing,
                                 outcome |-> outcome,
                                 okSteps |-> run.okSteps,
                                 warnSteps |-> run.warnSteps,
                                 errorSteps |-> run.errorSteps])]

\* mutant: the interfaces of the device are not looked at
ShouldRebootAnyDevice(run) ==
    /\ run.target # SystemTarget(run)
    /\ run.task.rebootOnErrors
    /\ Len(run.errorSteps) > 0

\* rebootOnErrors && result.errorSteps.length > 0 && device.interfaces.includes(Reboot)
ShouldReboot(run) ==
    /\ run.target # SystemTarget(run)
    /\ run.task.rebootOnErrors
    /\ Len(run.errorSteps) > 0
    /\ HasReboot(run.task.devices[run.target])

\* the step of the validation ends with the given outcome and runValidate
\* returns: the hooks are put back, the result is written to the message, and
\* the run goes on to the reboot, to the next target or to the notification
DiagEnd(r, outcome) ==
    /\ r \in DOMAIN runs
    /\ runs[r].pc = "diagEnd"
    /\ \E rs \in {Classify(runs, runs[r].console, diagnosticsPlugin.warnStep, outcome,
                           runs[r].testing)} :
       \E dp \in {[diagnosticsPlugin EXCEPT !.validate = rs[r].savedValidate,
                                            !.warnStep = rs[r].savedWarnStep]} :
          IF ShouldReboot(rs[r])
          THEN /\ runs' = [rs EXCEPT ![r] = [Reported(rs[r], outcome) EXCEPT
                              !.pc = "diagReboot",
                              !.message = @ \o " | Restarting |"]]
               /\ diagnosticsPlugin' = dp
          ELSE \E next \in {IF rs[r].target = SystemTarget(rs[r])
                            THEN [runs |-> Finish([rs EXCEPT ![r] = Reported(rs[r], outcome)], r),
                                  dp |-> dp]
                            ELSE StartTarget(
                                    [rs EXCEPT ![r] = [Reported(rs[r], outcome) EXCEPT
                                                          !.message = @ \o "\n"]],
                                    dp, r, rs[r].target + 1)} :
                  /\ runs' = next.runs
                  /\ diagnosticsPlugin' = next.dp
    /\ UNCHANGED <<tasksCheckListener, intervals, lifecycle, tasks, storage, notifier, taskManualExecution, currentChecksum,
                   cronTasks, lastTick, lastManual, cfgChanged, nWrites, ticks>>

\* await device.reboot() returns: the line ends and the loop goes on
DiagReboot(r) ==
    /\ r \in DOMAIN runs
    /\ runs[r].pc = "diagReboot"
    /\ \E next \in {StartTarget(
                       [runs EXCEPT ![r] = [@ EXCEPT
                           !.calls = Append(@, Call("reboot", runs[r].task.devices[runs[r].target],
                                                    Null)),
                           !.message = @ \o "\n"]],
                       diagnosticsPlugin, r, runs[r].target + 1)} :
          /\ runs' = next.runs
          /\ diagnosticsPlugin' = next.dp
    /\ UNCHANGED <<tasksCheckListener, intervals, lifecycle, tasks, storage, notifier, taskManualExecution, currentChecksum,
                   cronTasks, lastTick, lastManual, cfgChanged, nWrites, ticks>>

\* await device.reboot() rejects: the exception leaves executeTask
DiagRebootThrows(r) ==
    /\ r \in DOMAIN runs
    /\ runs[r].pc = "diagReboot"
    /\ runs' = [runs EXCEPT ![r] = [@ EXCEPT
                   !.pc = "failed",
                   !.inputs = [@ EXCEPT !.faulty = {runs[r].task.devices[runs[r].target]}],
                   !.calls = Append(@, Call("reboot", runs[r].task.devices[runs[r].target],
                                            Null))]]
    /\ UNCHANGED <<tasksCheckListener, intervals, lifecycle, tasks, storage, notifier, taskManualExecution, currentChecksum,
                   cronTasks, lastTick, lastManual, cfgChanged, nWrites, ticks,
                   diagnosticsPlugin>>

\* await diagnosticsPlugin.validateDevice() or validateSystem() rejects: the
\* exception leaves runValidate between the installation of the wrapper and
\* the two assignments that put the hooks back, and then executeTask
DiagValidateThrows(r) ==
    /\ r \in DOMAIN runs
    /\ runs[r].pc \in {"diagValidate", "diagEnd"}
    /\ runs' = [runs EXCEPT ![r].pc = "failed"]
    /\ UNCHANGED <<tasksCheckListener, intervals, lifecycle, tasks, storage, notifier, taskManualExecution, currentChecksum,
                   cronTasks, lastTick, lastManual, cfgChanged, nWrites, ticks,
                   diagnosticsPlugin>>

\* the steps of the Diagnostics branch
Diagnose ==
    \/ \E r \in DOMAIN runs : RunDiagnostics(r)
    \/ \E r \in DOMAIN runs : DiagValidate(r)
    \/ \E r \in DOMAIN runs : \E outcome \in StepOutcomes : DiagEnd(r, outcome)
    \/ \E r \in DOMAIN runs : DiagReboot(r)

\* the cron callback of a running timer: await this.executeTask(task)
TimerFire(i) ==
    /\ i \in DOMAIN cronTasks
    /\ cronTasks[i].running
    /\ Len(runs) < MaxRuns
    /\ runs' = Append(runs, NewRun(cronTasks[i].task))
    /\ UNCHANGED <<tasksCheckListener, intervals, lifecycle, diagnosticsPlugin, ticks, tasks, storage, notifier, taskManualExecution, currentChecksum,
                   cronTasks, lastTick, lastManual, cfgChanged, nWrites>>

\* the cron callbacks where executions may overlap: a timer fires while an
\* earlier execution is waiting for a call to return
TimerFireOverlap(i) ==
    /\ i \in DOMAIN cronTasks
    /\ cronTasks[i].running
    /\ Len(runs) < MaxOverlap
    /\ runs' = Append(runs, NewRun(cronTasks[i].task))
    /\ UNCHANGED <<tasksCheckListener, intervals, lifecycle, diagnosticsPlugin, ticks, tasks, storage, notifier, taskManualExecution, currentChecksum,
                   cronTasks, lastTick, lastManual, cfgChanged, nWrites>>

\* mutant: the callbacks of the timers run one after the other
TimerFireSerial(i) ==
    /\ i \in DOMAIN cronTasks
    /\ cronTasks[i].running
    /\ runs = <<>>
    /\ runs' = Append(runs, NewRun(cronTasks[i].task))
    /\ UNCHANGED <<tasksCheckListener, intervals, lifecycle, diagnosticsPlugin, ticks, tasks, storage, notifier, taskManualExecution, currentChecksum,
                   cronTasks, lastTick, lastManual, cfgChanged, nWrites>>

\* the cron callbacks with at most one execution in progress per task: a
\* timer fires whatever the executions of the other tasks are waiting for
TimerFirePerTask(i) ==
    /\ i \in DOMAIN cronTasks
    /\ cronTasks[i].running
    /\ \A r \in DOMAIN runs : runs[r].task.name # cronTasks[i].task.name
    /\ runs' = Append(runs, NewRun(cronTasks[i].task))
    /\ UNCHANGED <<tasksCheckListener, intervals, lifecycle, diagnosticsPlugin, ticks, tasks, storage, notifier, taskManualExecution, currentChecksum,
                   cronTasks, lastTick, lastManual, cfgChanged, nWrites>>

\* the branch of the run and the resolution of its notifiers; an exception
\* of the branch leaves executeTask, a call that never settles stalls it
RunDispatch(r, in) ==
    /\ r \in DOMAIN runs
    /\ runs[r].pc = "dispatch"
    /\ runs[r].task.type # "Diagnostics"
    /\ \E out \in {Branch(runs[r].task, in)} :
       \E after \in {[runs[r] EXCEPT
                        !.message = out.message,
                        !.priority = out.priority,
                        !.forceStop = out.forceStop,
                        !.actionsToDefer = out.actionsToDefer,
                        !.calls = out.calls,
                        !.trackedEntries = out.trackedEntries,
                        !.stats = out.stats,
                        !.atLeast1 = out.atLeast1,
                        !.inputs = in,
                        !.notifiers = IF out.outcome = "returned"
                                      THEN ResolveNotifiers(runs[r].task, out.forceStop, notifier)
                                      ELSE <<>>]} :
           runs' = [runs EXCEPT ![r] = [after EXCEPT
                       !.pc = CASE out.outcome = "threw" -> "failed"
                                [] out.outcome = "hung" -> "hung"
                                [] OTHER -> AfterSend(after)]]
    /\ UNCHANGED <<tasksCheckListener, intervals, lifecycle, diagnosticsPlugin, ticks, tasks, storage, notifier, taskManualExecution, currentChecksum,
                   cronTasks, lastTick, lastManual, cfgChanged, nWrites>>

\* await notifierDevice.sendNotification(title, {body: message, ...})
RunSend(r) ==
    /\ r \in DOMAIN runs
    /\ runs[r].pc = "notify"
    /\ \E run \in {runs[r]} :
       \E note \in {[to |-> run.notifiers[Len(run.sent) + 1], title |-> run.task.name,
                     body |-> run.message, priority |-> run.priority]} :
       \E after \in {[run EXCEPT !.sent = Append(run.sent, note),
                                  !.calls = Append(run.calls,
                                                   Call("sendNotification", note.to, Null))]} :
           runs' = [runs EXCEPT ![r] = [after EXCEPT !.pc = AfterSend(after)]]
    /\ UNCHANGED <<tasksCheckListener, intervals, lifecycle, diagnosticsPlugin, ticks, tasks, storage, notifier, taskManualExecution, currentChecksum,
                   cronTasks, lastTick, lastManual, cfgChanged, nWrites>>

\* the call actionsToDefer makes: restartPlugin(scrypted.name) of the
\* RestartPlugins branch, restartScrypted() of the RestartScrypted branch
DeferredCall(actionsToDefer) ==
    IF actionsToDefer = "restartSelf" THEN Call("restartPlugin", scryptedName, Null)
    ELSE Call("restartScrypted", Null, Null)

\* if (actionsToDefer) await actionsToDefer()
RunDeferred(r) ==
    /\ r \in DOMAIN runs
    /\ runs[r].pc = "deferred"
    /\ runs' = [runs EXCEPT ![r] = [runs[r] EXCEPT
                    !.pc = "done",
                    !.deferredRan = TRUE,
                    !.calls = Append(@, DeferredCall(runs[r].actionsToDefer))]]
    /\ UNCHANGED <<tasksCheckListener, intervals, lifecycle, diagnosticsPlugin, ticks, tasks, storage, notifier, taskManualExecution, currentChecksum,
                   cronTasks, lastTick, lastManual, cfgChanged, nWrites>>

\* await notifierDevice.sendNotification(...) rejects: the exception leaves
\* executeTask, the rest of the notifiers and the deferred action are skipped
RunSendThrows(r) ==
    /\ r \in DOMAIN runs
    /\ runs[r].pc = "notify"
    /\ runs' = [runs EXCEPT ![r] = [runs[r] EXCEPT
                    !.pc = "failed",
                    !.calls = Append(@, Call("sendNotification",
                                             runs[r].notifiers[Len(runs[r].sent) + 1], Null))]]
    /\ UNCHANGED <<tasksCheckListener, intervals, lifecycle, diagnosticsPlugin, ticks, tasks, storage, notifier, taskManualExecution, currentChecksum,
                   cronTasks, lastTick, lastManual, cfgChanged, nWrites>>

\* await actionsToDefer() rejects: the restart was asked for and failed
RunDeferredThrows(r) ==
    /\ r \in DOMAIN runs
    /\ runs[r].pc = "deferred"
    /\ runs' = [runs EXCEPT ![r] = [runs[r] EXCEPT
                    !.pc = "failed",
                    !.deferredRan = TRUE,
                    !.calls = Append(@, DeferredCall(runs[r].actionsToDefer))]]
    /\ UNCHANGED <<tasksCheckListener, intervals, lifecycle, diagnosticsPlugin, ticks, tasks, storage, notifier, taskManualExecution, currentChecksum,
                   cronTasks, lastTick, lastManual, cfgChanged, nWrites>>

\* the promise of an executeTask call settles: the call is over
RunReturn(r) ==
    /\ r \in DOMAIN runs
    /\ runs[r].pc \in {"done", "failed"}
    /\ runs' = SubSeq(runs, 1, r - 1) \o SubSeq(runs, r + 1, Len(runs))
    /\ UNCHANGED <<tasksCheckListener, intervals, lifecycle, diagnosticsPlugin, ticks, tasks, storage, notifier, taskManualExecution, currentChecksum,
                   cronTasks, lastTick, lastManual, cfgChanged, nWrites>>

----------------------------------------------------------------------------
(* The loops over the targets, one target at a time: for (const id of      *)
(* list) { ... await call ... } of RestartPlugins, UpdatePlugins and        *)
(* RestartCameras.  run.target is the position the loop has reached.        *)

LoopTypes == {"RestartPlugins", "UpdatePlugins", "RestartCameras"}

\* the list the for loop of the branch iterates
LoopList(task) == IF task.type = "RestartCameras" THEN task.devices ELSE task.plugins

\* the locals of executeTask as the body of the loop finds them
AccOf(run, calls) ==
    [BranchStart EXCEPT !.message = run.message, !.actionsToDefer = run.actionsToDefer,
                        !.atLeast1 = run.atLeast1, !.calls = calls]

\* one iteration of the loop of the branch
LoopBody(acc, task, id, in) ==
    CASE task.type = "RestartPlugins" -> RestartPluginsPlugin(acc, id, in)
      [] task.type = "UpdatePlugins" -> UpdatePluginsPlugin(acc, id, task, in)
      [] OTHER -> RestartCamerasDevice(acc, id, in)

\* the calls the iteration for position t makes
CallsOf(run, t) ==
    SubSeq(LoopBody(AccOf(run, run.calls), run.task, LoopList(run.task)[t], run.inputs).calls,
           Len(run.calls) + 1,
           Len(LoopBody(AccOf(run, run.calls), run.task, LoopList(run.task)[t], run.inputs).calls))

\* the calls made for position t, waited for
Pending(calls, t) == [k \in DOMAIN calls |-> [index |-> t, call |-> calls[k]]]

\* the calls of the run that have returned
Returned(run) == SubSeq(run.calls, 1, Len(run.calls) - Len(run.pending))

\* executeTask of a task of the three types up to its loop: the collaborators
\* answer with `in` from here on
RunLoop(r, in) ==
    /\ r \in DOMAIN runs
    /\ runs[r].pc = "dispatch"
    /\ runs[r].task.type \in LoopTypes
    /\ runs' = [runs EXCEPT ![r] = [@ EXCEPT !.pc = "loop", !.inputs = in, !.target = 0]]
    /\ UNCHANGED <<tasksCheckListener, intervals, lifecycle, diagnosticsPlugin, ticks, tasks, storage, notifier, taskManualExecution,
                   currentChecksum, cronTasks, lastTick, lastManual, cfgChanged, nWrites>>

\* the iteration for position t without a call to wait for: the flag of the
\* self restart is set and the line written, or the iteration throws
LoopSync(run, t, b) ==
    [run EXCEPT !.target = t,
                !.message = b.message,
                !.actionsToDefer = b.actionsToDefer,
                !.pc = IF b.outcome = "threw" THEN "failed" ELSE "loop"]

\* mutant: the iterations are started together, as list.map(async ...) would
LoopCallFanOut(r) ==
    /\ r \in DOMAIN runs
    /\ runs[r].pc \in {"loop", "awaitCall"}
    /\ runs[r].target < Len(LoopList(runs[r].task))
    /\ CallsOf(runs[r], runs[r].target + 1) # <<>>
    /\ runs' = [runs EXCEPT ![r] = [@ EXCEPT
                   !.target = @ + 1,
                   !.pc = "awaitCall",
                   !.calls = @ \o CallsOf(runs[r], runs[r].target + 1),
                   !.pending = @ \o Pending(CallsOf(runs[r], runs[r].target + 1),
                                            runs[r].target + 1)]]
    /\ UNCHANGED <<tasksCheckListener, intervals, lifecycle, diagnosticsPlugin, ticks, tasks, storage, notifier, taskManualExecution,
                   currentChecksum, cronTasks, lastTick, lastManual, cfgChanged, nWrites>>

\* the loop goes to the next position and runs its iteration up to the await
\* of its call (await restartPlugin, await updatePlugin, await device.reboot);
\* RestartCameras writes the line of the device before the call
LoopCall(r) ==
    /\ r \in DOMAIN runs
    /\ runs[r].pc = "loop"
    /\ runs[r].target < Len(LoopList(runs[r].task))
    /\ \E t \in {runs[r].target + 1} :
          IF CallsOf(runs[r], t) = <<>>
          THEN runs' = [runs EXCEPT ![r] =
                           LoopSync(runs[r], t,
                                    LoopBody(AccOf(runs[r], runs[r].calls), runs[r].task,
                                             LoopList(runs[r].task)[t], runs[r].inputs))]
          ELSE runs' = [runs EXCEPT ![r] = [@ EXCEPT
                           !.target = t,
                           !.pc = "awaitCall",
                           !.calls = @ \o CallsOf(runs[r], t),
                           !.pending = Pending(CallsOf(runs[r], t), t),
                           !.message = IF runs[r].task.type = "RestartCameras"
                                       THEN LoopBody(AccOf(runs[r], runs[r].calls), runs[r].task,
                                                     LoopList(runs[r].task)[t],
                                                     runs[r].inputs).message
                                       ELSE @]]
    /\ UNCHANGED <<tasksCheckListener, intervals, lifecycle, diagnosticsPlugin, ticks, tasks, storage, notifier, taskManualExecution,
                   currentChecksum, cronTasks, lastTick, lastManual, cfgChanged, nWrites>>

\* the awaited call of the oldest iteration in progress returns or rejects:
\* the rest of that iteration
LoopReturn(r) ==
    /\ r \in DOMAIN runs
    /\ runs[r].pc = "awaitCall"
    /\ \E b \in {LoopBody(AccOf(runs[r], Returned(runs[r])), runs[r].task,
                          LoopList(runs[r].task)[runs[r].pending[1].index], runs[r].inputs)} :
          /\ b.outcome # "hung"
          /\ runs' = [runs EXCEPT ![r] = [@ EXCEPT
                         !.pending = SelectSeq(@, LAMBDA p : p.index # runs[r].pending[1].index),
                         !.message = IF runs[r].task.type = "RestartCameras" THEN @
                                     ELSE b.message,
                         !.actionsToDefer = b.actionsToDefer,
                         !.pc = IF b.outcome = "threw" THEN "failed"
                                ELSE IF \E k \in DOMAIN runs[r].pending :
                                           runs[r].pending[k].index # runs[r].pending[1].index
                                THEN "awaitCall"
                                ELSE "loop"]]
    /\ UNCHANGED <<tasksCheckListener, intervals, lifecycle, diagnosticsPlugin, ticks, tasks, storage, notifier, taskManualExecution,
                   currentChecksum, cronTasks, lastTick, lastManual, cfgChanged, nWrites>>

\* after the last position: the check of the other plugins of UpdatePlugins,
\* then the notification block
LoopEnd(r) ==
    /\ r \in DOMAIN runs
    /\ runs[r].pc = "loop"
    /\ runs[r].target = Len(LoopList(runs[r].task))
    /\ \E b \in {IF runs[r].task.type = "UpdatePlugins" /\ runs[r].task.checkAllPlugins
                 THEN OtherPluginsFinish(OtherPluginsEach(AccOf(runs[r], runs[r].calls),
                                                          otherPlugins(runs[r].task), 1,
                                                          runs[r].task, runs[r].inputs))
                 ELSE AccOf(runs[r], runs[r].calls)} :
          runs' = Finish([runs EXCEPT ![r] = [@ EXCEPT !.message = b.message,
                                                        !.calls = b.calls,
                                                        !.atLeast1 = b.atLeast1]], r)
    /\ UNCHANGED <<tasksCheckListener, intervals, lifecycle, diagnosticsPlugin, ticks, tasks, storage, notifier, taskManualExecution,
                   currentChecksum, cronTasks, lastTick, lastManual, cfgChanged, nWrites>>

\* the user picks the task of the manual trigger
SelectManual(taskName) ==
    /\ taskManualExecution # taskName
    /\ taskManualExecution' = taskName
    /\ UNCHANGED <<tasksCheckListener, intervals, lifecycle, diagnosticsPlugin, ticks, tasks, storage, notifier, currentChecksum, cronTasks, lastTick,
                   runs, lastManual, cfgChanged, nWrites>>

\* mutant: the manual trigger runs enabled tasks only
ManualExecuteIfEnabled ==
    /\ Len(runs) < MaxRuns
    /\ IF taskManualExecution = Null
       THEN /\ lastManual' = "nothing"
            /\ runs' = runs
       ELSE IF ~getTask(storage, taskManualExecution).enabled
            THEN /\ lastManual' = "skipped"
                 /\ runs' = runs
            ELSE /\ lastManual' = "started"
                 /\ runs' = Append(runs, NewRun(getTask(storage, taskManualExecution)))
    /\ UNCHANGED <<tasksCheckListener, intervals, lifecycle, diagnosticsPlugin, ticks, tasks, storage, notifier, taskManualExecution, currentChecksum,
                   cronTasks, lastTick, cfgChanged, nWrites>>

\* startManualExecution.onPut
ManualExecute ==
    /\ Len(runs) < MaxRuns
    /\ IF taskManualExecution = Null
       THEN /\ lastManual' = "nothing"
            /\ runs' = runs
       ELSE IF getTaskReturns(storage, taskManualExecution)
            THEN /\ lastManual' = "started"
                 /\ runs' = Append(runs, NewRun(getTask(storage, taskManualExecution)))
            ELSE /\ lastManual' = "threw"
                 /\ runs' = runs
    /\ UNCHANGED <<tasksCheckListener, intervals, lifecycle, diagnosticsPlugin, ticks, tasks, storage, notifier, taskManualExecution, currentChecksum,
                   cronTasks, lastTick, cfgChanged, nWrites>>

----------------------------------------------------------------------------
(* Specifications.                                                         *)

EmptyStorage == [k \in AllKeys |-> Absent]

\* a configuration saved by an earlier session: two scheduled tasks
SavedStorage ==
    [k \in AllKeys |->
        CASE k = getTaskKeys("A").taskCronKey -> CronA
          [] k = getTaskKeys("A").taskTypeKey -> "RestartScrypted"
          [] k = getTaskKeys("B").taskCronKey -> CronB
          [] k = getTaskKeys("B").taskTypeKey -> "ReportHaConsumables"
          [] OTHER -> Absent]

\* the constructor has called start(true): its setInterval is scheduled
Constructed ==
    /\ tasksCheckListener = 1
    /\ intervals = <<TRUE>>
    /\ lifecycle = [last |-> "constructor", written |-> FALSE,
                    prev |-> "none", prevWritten |-> FALSE]

InitRest ==
    /\ taskManualExecution = Null
    /\ currentChecksum = Undefined
    /\ cronTasks = <<>>
    /\ lastTick = "none"
    /\ runs = <<>>
    /\ lastManual = "none"
    /\ cfgChanged = TRUE
    /\ nWrites = 0
    /\ diagnosticsPlugin = NewDiagnosticsPlugin
    /\ ticks = <<>>
    /\ Constructed

\* the plugin as constructed: a first installation, or a saved configuration
Init ==
    /\ \/ tasks = <<>> /\ storage = EmptyStorage /\ notifier = Null
       \/ tasks = <<"A", "B">> /\ storage = SavedStorage /\ notifier = "n1"
    /\ InitRest

Write ==
    \/ \E names \in NameLists : SetTasks(names)
    \/ \E n \in Names, f \in {"taskEnabledKey", "taskCronKey"} :
          \E raw \in WellFormed(f) : PutSetting(n, f, raw)

Execute ==
    \/ \E i \in 1..MaxTimers : TimerFire(i)
    \/ \E r \in DOMAIN runs : \E in \in BranchInputs(runs[r].task) : RunDispatch(r, in)
    \/ \E r \in 1..MaxRuns : RunSend(r)
    \/ \E r \in 1..MaxRuns : RunDeferred(r)
    \/ \E r \in 1..MaxRuns : RunReturn(r)

Next == Write \/ Tick \/ Execute

Spec == Init /\ [][Next]_vars

\* one task, every type and notification setting, and no later write
ExecStorage(type, skipNotify, additionalNotifiers) ==
    [k \in AllKeys |->
        CASE k = getTaskKeys("A").taskCronKey -> CronA
          [] k = getTaskKeys("A").taskTypeKey -> type
          [] k = getTaskKeys("A").taskSkipNotify -> skipNotify
          [] k = getTaskKeys("A").taskAdditionalNotifiers -> additionalNotifiers
          [] OTHER -> Absent]

\* task A with the given raw values under its keys, nothing else stored
StorageOfA(settings) ==
    [k \in AllKeys |->
        IF \E f \in DOMAIN settings : k = getTaskKeys("A")[f]
        THEN settings[CHOOSE f \in DOMAIN settings : k = getTaskKeys("A")[f]]
        ELSE Absent]

InitExec ==
    /\ tasks = <<"A">>
    /\ \/ \E type \in TaskType \cup {Absent}, skipNotify \in {Absent, "true"},
             additionalNotifiers \in {Absent, "[\"n1\"]", "[\"n1\",\"n2\"]"} :
               storage = ExecStorage(type, skipNotify, additionalNotifiers)
       \/ storage = StorageOfA([taskTypeKey |-> "Diagnostics",
                                taskCronKey |-> CronA,
                                taskDevicesKey |-> "[\"dCam1\"]",
                                taskRebootKey |-> "true"])
    /\ notifier \in {Null, "n2"}
    /\ InitRest

Manual ==
    \/ \E n \in Names : SelectManual(n)
    \/ ManualExecute

NextExec == Tick \/ Execute \/ Manual

NextExecAll == NextExec \/ Diagnose

SpecExec == InitExec /\ [][NextExecAll]_vars

\* the lists of at most two plugin ids, as stored
PluginLists ==
    { JSONStringifyList(l) :
        l \in { <<>> } \cup { <<a>> : a \in PluginIds }
               \cup { <<a, b>> : a \in PluginIds, b \in PluginIds } }

\* one restarting task: RestartScrypted, or RestartPlugins with every plugin list
InitRestart ==
    /\ tasks = <<"A">>
    /\ \E skipNotify \in {"false", "true"},
          additionalNotifiers \in {"[]", "[\"n1\",\"n2\"]"} :
          \/ storage = StorageOfA([taskTypeKey |-> "RestartScrypted",
                                   taskCronKey |-> CronA,
                                   taskSkipNotify |-> skipNotify,
                                   taskAdditionalNotifiers |-> additionalNotifiers])
          \/ \E plugins \in PluginLists :
                storage = StorageOfA([taskTypeKey |-> "RestartPlugins",
                                      taskCronKey |-> CronA,
                                      taskPluginsKey |-> plugins,
                                      taskSkipNotify |-> skipNotify,
                                      taskAdditionalNotifiers |-> additionalNotifiers])
    /\ notifier \in {Null, "n2"}
    /\ InitRest

SpecRestart == InitRestart /\ [][NextExec]_vars

\* the executor with a notifier and a restart control that may throw
ExecuteFault ==
    \/ \E r \in 1..MaxRuns : RunSendThrows(r)
    \/ \E r \in 1..MaxRuns : RunDeferredThrows(r)

NextRestartFault == NextExec \/ ExecuteFault

SpecRestartFault == InitRestart /\ [][NextRestartFault]_vars

\* a Home Assistant with five entities in every combination of their states
ReportWorld == [BasicWorld EXCEPT !.statuses = StatusLists]

AlwaysReportLists ==
    { JSONStringifyList(l) :
        l \in { <<>>, <<"sensor.a">>, <<"sensor.b", "binary_sensor.c">>,
                <<"sensor.d", "binary_sensor.p">>, <<"binary">> } }

ExcludeLists ==
    { JSONStringifyList(l) :
        l \in { <<>>, <<"sensor.a">>, <<"binary_sensor.c", "sensor.d">> } }

\* one reporting task of Home Assistant: its type, its two entity lists and
\* its threshold; the default notifier is set
InitReport ==
    /\ tasks = <<"A">>
    /\ \/ \E type \in {"ReportHaBatteryStatus", "ReportHaUnavailableEntities",
                        "ReportHaConsumables"},
             always \in AlwaysReportLists, exclude \in ExcludeLists,
             threshold \in {Absent, "20"} :
                storage = StorageOfA([taskTypeKey |-> type,
                                      taskCronKey |-> CronA,
                                      taskEntitiesToAlwaysReport |-> always,
                                      taskEntitiesToExclude |-> exclude,
                                      taskBatteryThreshold |-> threshold])
       \/ storage = StorageOfA([taskTypeKey |-> "TomorrowEventsHa",
                                taskCronKey |-> CronA,
                                taskCalendarEntity |-> "calendar.home"])
    /\ notifier = "n1"
    /\ InitRest

\* the executor of the reporting tasks, which defer no action
ExecuteReport ==
    \/ \E i \in 1..MaxTimers : TimerFire(i)
    \/ \E r \in DOMAIN runs :
          \E in \in InputsIn(ReportWorld, runs[r].task) : RunDispatch(r, in)
    \/ \E r \in 1..MaxRuns : RunSend(r)
    \/ \E r \in 1..MaxRuns : RunReturn(r)

NextReport == Tick \/ ExecuteReport

SpecReport == InitReport /\ [][NextReport]_vars

\* a registry in which every package has any of the dist-tag assignments
UpdateWorld == [BasicWorld EXCEPT !.statuses = { <<>> }, !.registry = [Packages -> RegistryData]]

\* one UpdatePlugins task over one or two plugins, stable or beta channel,
\* with and without the check of the other plugins
InitUpdate ==
    /\ tasks = <<"A">>
    /\ \E plugins \in { JSONStringifyList(l) : l \in { <<"pOther">>, <<"pOther", "pCore">> } },
          beta \in {"false", "true"}, checkAll \in {"false", "true"} :
            storage = StorageOfA([taskTypeKey |-> "UpdatePlugins",
                                  taskCronKey |-> CronA,
                                  taskPluginsKey |-> plugins,
                                  taskBetaKey |-> beta,
                                  taskCheckAllPluginsVersion |-> checkAll])
    /\ notifier = "n1"
    /\ InitRest

\* the executor of the updating task, which defers no action
ExecuteUpdate ==
    \/ \E i \in 1..MaxTimers : TimerFire(i)
    \/ \E r \in DOMAIN runs :
          \E in \in InputsIn(UpdateWorld, runs[r].task) : RunDispatch(r, in)
    \/ \E r \in 1..MaxRuns : RunSend(r)
    \/ \E r \in 1..MaxRuns : RunReturn(r)

NextUpdate == Tick \/ ExecuteUpdate

SpecUpdate == InitUpdate /\ [][NextUpdate]_vars

\* the reconciler with a timer library whose stop() may throw
StopFault == \E i \in 1..MaxTimers : TickStopThrows(i)

NextStopFault == Write \/ Tick \/ StopFault

SpecStopFault == Init /\ [][NextStopFault]_vars

\* the plugin over a storage in which a value that is not JSON gets written
PutMalformed == \E n \in Names, raw \in Malformed : PutSetting(n, "taskRebootKey", raw)

NextMalformed == PutMalformed \/ Tick \/ Execute \/ Manual

SpecMalformed == Init /\ [][NextMalformed]_vars

\* a registry that has no data for some of the packages
NoDataWorld ==
    [BasicWorld EXCEPT
        !.statuses = { <<>> },
        !.registry = [Packages -> {NoRegistryData}
                                  \cup { d \in RegistryData : d.distTags.latest = "1.1.0"
                                                              /\ d.distTags.beta = Null }]]

ExecuteNoData ==
    \/ \E i \in 1..MaxTimers : TimerFire(i)
    \/ \E r \in DOMAIN runs :
          \E in \in InputsIn(NoDataWorld, runs[r].task) : RunDispatch(r, in)
    \/ \E r \in 1..MaxRuns : RunSend(r)
    \/ \E r \in 1..MaxRuns : RunReturn(r)

NextNoData == Tick \/ ExecuteNoData

SpecNoData == InitUpdate /\ [][NextNoData]_vars

\* the lists of at most two ids, one of which may be unknown to the registry
IdLists(known, unknown) ==
    { JSONStringifyList(l) :
        l \in { <<known>>, <<unknown>>, <<known, unknown>>, <<unknown, known>> } }

\* one task over devices or plugins, some removed from the system since the
\* task was configured
InitUnknown ==
    /\ tasks = <<"A">>
    /\ \/ \E type \in {"Diagnostics", "RestartCameras"},
             devices \in IdLists("dCam1", "dGone") :
                storage = StorageOfA([taskTypeKey |-> type,
                                      taskCronKey |-> CronA,
                                      taskDevicesKey |-> devices,
                                      taskRebootKey |-> "true"])
       \/ \E type \in {"RestartPlugins", "UpdatePlugins"},
             plugins \in IdLists("pOther", "pGone") \cup IdLists("pSelf", "pGone") :
                storage = StorageOfA([taskTypeKey |-> type,
                                      taskCronKey |-> CronA,
                                      taskPluginsKey |-> plugins])
    /\ notifier = "n1"
    /\ InitRest

NextUnknown == Tick \/ Execute \/ Diagnose

SpecUnknown == InitUnknown /\ [][NextUnknown]_vars

\* the lists of at most two devices, as stored
DeviceLists ==
    { JSONStringifyList(l) :
        l \in { <<>>, <<"dCam1">>, <<"dCam2">>, <<"dCam1", "dCam2">>, <<"dCam2", "dCam1">> } }

\* one Diagnostics task: its devices, with and without the reboot on errors
\* and the system diagnostic
InitDiag ==
    /\ tasks = <<"A">>
    /\ \E devices \in DeviceLists, reboot \in {Absent, "true"},
          system \in {"false", "true"} :
            storage = StorageOfA([taskTypeKey |-> "Diagnostics",
                                  taskCronKey |-> CronA,
                                  taskDevicesKey |-> devices,
                                  taskRebootKey |-> reboot,
                                  taskSystemDiagnostic |-> system])
    /\ notifier = "n1"
    /\ InitRest

\* the executor of the Diagnostics task, which defers no action
ExecuteDiag ==
    \/ \E i \in 1..MaxTimers : TimerFire(i)
    \/ Diagnose
    \/ \E r \in 1..MaxRuns : RunSend(r)
    \/ \E r \in 1..MaxRuns : RunReturn(r)

NextDiag == Tick \/ ExecuteDiag

SpecDiag == InitDiag /\ [][NextDiag]_vars

\* tasks A and B with the given raw values under their keys
StorageOfBoth(a, b) ==
    [k \in AllKeys |->
        IF \E f \in DOMAIN a : k = getTaskKeys("A")[f]
        THEN a[CHOOSE f \in DOMAIN a : k = getTaskKeys("A")[f]]
        ELSE IF \E f \in DOMAIN b : k = getTaskKeys("B")[f]
        THEN b[CHOOSE f \in DOMAIN b : k = getTaskKeys("B")[f]]
        ELSE Absent]

\* two Diagnostics tasks on the same schedule: A validates the first camera
\* and reboots it on errors, B validates the second camera
InitOverlap ==
    /\ tasks = <<"A", "B">>
    /\ storage = StorageOfBoth([taskTypeKey |-> "Diagnostics",
                                taskCronKey |-> CronA,
                                taskDevicesKey |-> "[\"dCam1\"]",
                                taskRebootKey |-> "true",
                                taskSystemDiagnostic |-> "false"],
                               [taskTypeKey |-> "Diagnostics",
                                taskCronKey |-> CronA,
                                taskDevicesKey |-> "[\"dCam2\"]",
                                taskSystemDiagnostic |-> "false"])
    /\ notifier = "n1"
    /\ InitRest

\* two executions that may interleave at their awaits; the executions are
\* kept once they are over
ExecuteOverlap ==
    \/ \E i \in 1..MaxTimers : TimerFireOverlap(i)
    \/ Diagnose
    \/ \E r \in 1..MaxOverlap : RunSend(r)

NextOverlap == Tick \/ ExecuteOverlap

SpecOverlap == InitOverlap /\ [][NextOverlap]_vars

\* the saved configuration of two scheduled tasks
InitManual ==
    /\ tasks = <<"A", "B">>
    /\ storage = SavedStorage
    /\ notifier = "n1"
    /\ InitRest

\* the settings of task A are edited while the manual trigger is used
WriteSettings ==
    \E f \in {"taskEnabledKey", "taskCronKey"} :
        \E raw \in WellFormed(f) : PutSetting("A", f, raw)

NextManual == WriteSettings \/ Tick \/ Execute \/ Manual

SpecManual == InitManual /\ [][NextManual]_vars

\* the plugin as constructed, on the event loop: start() has set the interval
\* and its own call of checkActiveTasks waits at its first await
InitSteps ==
    /\ \/ tasks = <<>> /\ storage = EmptyStorage /\ notifier = Null
       \/ tasks = <<"A", "B">> /\ storage = SavedStorage /\ notifier = "n1"
    /\ taskManualExecution = Null
    /\ currentChecksum = Undefined
    /\ cronTasks = <<>>
    /\ lastTick = "none"
    /\ runs = <<>>
    /\ lastManual = "none"
    /\ cfgChanged = FALSE
    /\ nWrites = 0
    /\ diagnosticsPlugin = NewDiagnosticsPlugin
    /\ ticks = <<TickFrame("startup", getTasks(storage, tasks))>>
    /\ Constructed

\* a write of the settings page is a task of the event loop
WriteWhenIdle == NoMicrotaskPending /\ Write

NextSteps == WriteWhenIdle \/ TickCall \/ (\E i \in 1..MaxOverlap : TickResume(i))

SpecSteps == InitSteps /\ [][NextSteps]_vars

\* a system in which the reboot of the first camera and the restart and the
\* installation of the other plugin may be rejected
FaultWorld == [BasicWorld EXCEPT !.faulty = { {}, {"dCam1", "@scrypted/other"} }]

\* task A reboots, restarts or installs; task B restarts the server on
\* another schedule
InitCallFault ==
    /\ tasks = <<"A", "B">>
    /\ \E a \in { [taskTypeKey |-> "RestartCameras", taskDevicesKey |-> "[\"dCam1\"]",
                   taskPluginsKey |-> "[]", taskRebootKey |-> "false"],
                  [taskTypeKey |-> "Diagnostics", taskDevicesKey |-> "[\"dCam1\"]",
                   taskPluginsKey |-> "[]", taskRebootKey |-> "true"],
                  [taskTypeKey |-> "RestartPlugins", taskDevicesKey |-> "[]",
                   taskPluginsKey |-> "[\"pSelf\",\"pOther\"]", taskRebootKey |-> "false"],
                  [taskTypeKey |-> "UpdatePlugins", taskDevicesKey |-> "[]",
                   taskPluginsKey |-> "[\"pOther\"]", taskRebootKey |-> "false"] } :
          storage = StorageOfBoth(a @@ [taskCronKey |-> CronA],
                                  [taskTypeKey |-> "RestartScrypted", taskCronKey |-> CronB])
    /\ notifier = "n1"
    /\ InitRest

\* executions that may overlap, with calls that may be rejected; the
\* executions are kept once they are over
ExecuteCallFault ==
    \/ \E i \in 1..MaxTimers : TimerFireOverlap(i)
    \/ \E r \in DOMAIN runs :
          \E in \in InputsIn(FaultWorld, runs[r].task) : RunDispatch(r, in)
    \/ Diagnose
    \/ \E r \in 1..MaxOverlap : DiagRebootThrows(r)
    \/ \E r \in 1..MaxOverlap : RunSend(r)
    \/ \E r \in 1..MaxOverlap : RunDeferred(r)

NextCallFault == Tick \/ ExecuteCallFault

SpecCallFault == InitCallFault /\ [][NextCallFault]_vars

\* a system in which the reboot of the first camera may never return
HangWorld == [BasicWorld EXCEPT !.hanging = { {}, {"dCam1"} }]

\* task A reboots the first camera, task B restarts the server on another
\* schedule
InitHang ==
    /\ tasks = <<"A", "B">>
    /\ storage = StorageOfBoth([taskTypeKey |-> "RestartCameras", taskCronKey |-> CronA,
                                taskDevicesKey |-> "[\"dCam1\"]"],
                               [taskTypeKey |-> "RestartScrypted", taskCronKey |-> CronB])
    /\ notifier = "n1"
    /\ InitRest

\* the schedule of task B is edited
WriteCronB == PutSetting("B", "taskCronKey", CronA)

\* a timer of the task fires
Fire(taskName) ==
    \E i \in 1..MaxTimers :
        /\ i \in DOMAIN cronTasks
        /\ cronTasks[i].task.name = taskName
        /\ TimerFirePerTask(i)

DispatchHang ==
    \E r \in DOMAIN runs : \E in \in InputsIn(HangWorld, runs[r].task) : RunDispatch(r, in)

SendHang == \E r \in 1..MaxOverlap : RunSend(r)

DeferredHang == \E r \in 1..MaxOverlap : RunDeferred(r)

ReturnHang == \E r \in 1..MaxOverlap : RunReturn(r)

NextHang ==
    WriteCronB \/ Tick \/ Fire("A") \/ Fire("B") \/ DispatchHang \/ SendHang
        \/ DeferredHang \/ ReturnHang

\* the interval fires every 15 seconds, the timers fire on their schedules,
\* and an execution goes on whenever the call it waits for has returned
SpecHang ==
    /\ InitHang
    /\ [][NextHang]_vars
    /\ WF_vars(Tick)
    /\ WF_vars(Fire("B"))
    /\ WF_vars(DispatchHang)
    /\ WF_vars(SendHang)
    /\ WF_vars(DeferredHang)
    /\ WF_vars(ReturnHang)

\* the scan of the other plugins: a registry in which a package is on 1.0.0
\* or 1.1.0, with or without a beta
ScanWorld ==
    [UpdateWorld EXCEPT
        !.registry = [Packages -> { d \in RegistryData :
                                       /\ d.distTags.latest \in {"1.0.0", "1.1.0"}
                                       /\ d.distTags.beta \in {Null, "1.2.0-beta.1"} }]]

\* one UpdatePlugins task over one or two of the three known plugins
InitScan ==
    /\ tasks = <<"A">>
    /\ \E plugins \in { JSONStringifyList(l) :
                           l \in { <<"pOther">>, <<"pOther", "pCore">>, <<"pCore", "pSelf">> } },
          beta \in {"false", "true"}, checkAll \in {"false", "true"} :
            storage = StorageOfA([taskTypeKey |-> "UpdatePlugins",
                                  taskCronKey |-> CronA,
                                  taskPluginsKey |-> plugins,
                                  taskBetaKey |-> beta,
                                  taskCheckAllPluginsVersion |-> checkAll])
    /\ notifier = "n1"
    /\ InitRest

ExecuteScan ==
    \/ \E i \in 1..MaxTimers : TimerFire(i)
    \/ \E r \in DOMAIN runs :
          \E in \in InputsIn(ScanWorld, runs[r].task) : RunDispatch(r, in)
    \/ \E r \in 1..MaxRuns : RunSend(r)
    \/ \E r \in 1..MaxRuns : RunReturn(r)

NextScan == Tick \/ ExecuteScan

SpecScan == InitScan /\ [][NextScan]_vars

\* the plugin status report: any counters of the three plugins on a host
\* without workers, or any forks on three workers
RpcWorld ==
    [BasicWorld EXCEPT
        !.info = [Packages -> { i \in PluginInfo : i.clientsCount = 0 \/ i.pendingResults = 0 }]]
ClusterWorld == [BasicWorld EXCEPT !.cluster = { <<w>> : w \in ClusterWorkers }]

\* one ReportPluginsStatus task with maxStats 1, 2 or not stored
InitStats ==
    /\ tasks = <<"A">>
    /\ \E maxStats \in {Absent, "1", "2"} :
          storage = StorageOfA([taskTypeKey |-> "ReportPluginsStatus",
                                taskCronKey |-> CronA,
                                taskMaxStatsKey |-> maxStats])
    /\ notifier = "n1"
    /\ InitRest

ExecuteStats ==
    \/ \E i \in 1..MaxTimers : TimerFire(i)
    \/ \E r \in DOMAIN runs :
          \E in \in InputsIn(RpcWorld, runs[r].task) : RunDispatch(r, in)
    \/ \E r \in DOMAIN runs :
          \E in \in InputsIn(ClusterWorld, runs[r].task) : RunDispatch(r, in)
    \/ \E r \in 1..MaxRuns : RunSend(r)
    \/ \E r \in 1..MaxRuns : RunReturn(r)

NextStats == Tick \/ ExecuteStats

SpecStats == InitStats /\ [][NextStats]_vars

\* the loops over two targets, in both orders and with a target listed twice
OrderLists ==
    [RestartCameras |-> { <<"dCam1", "dCam1">>, <<"dCam1", "dCam2">> },
     Diagnostics    |-> { <<"dCam1", "dCam2">>, <<"dCam2", "dCam1">> },
     RestartPlugins |-> { <<"pOther", "pSelf">>, <<"pSelf", "pOther">>, <<"pOther", "pOther">> },
     UpdatePlugins  |-> { <<"pOther", "pCore">>, <<"pCore", "pOther">> }]

InitOrder ==
    /\ tasks = <<"A">>
    /\ \E type \in DOMAIN OrderLists :
       \E list \in OrderLists[type] :
       \E flag \in {"false", "true"} :
          storage = StorageOfA([taskTypeKey |-> type,
                                taskCronKey |-> CronA,
                                taskDevicesKey |-> JSONStringifyList(list),
                                taskPluginsKey |-> JSONStringifyList(list),
                                taskRebootKey |-> "true",
                                taskSystemDiagnostic |-> flag,
                                taskCheckAllPluginsVersion |-> flag])
    /\ notifier = "n1"
    /\ InitRest

ExecuteOrder ==
    \/ \E i \in 1..MaxTimers : TimerFire(i)
    \/ \E r \in DOMAIN runs :
          \E in \in InputsIn(ScanWorld, runs[r].task) : RunLoop(r, in)
    \/ \E r \in DOMAIN runs : LoopCall(r)
    \/ \E r \in DOMAIN runs : LoopReturn(r)
    \/ \E r \in DOMAIN runs : LoopEnd(r)
    \/ Diagnose
    \/ \E r \in 1..MaxRuns : RunSend(r)
    \/ \E r \in 1..MaxRuns : RunDeferred(r)
    \/ \E r \in 1..MaxRuns : RunReturn(r)

NextOrder == Tick \/ ExecuteOrder

SpecOrder == InitOrder /\ [][NextOrder]_vars

\* the plugin switch is used on a saved configuration of two scheduled tasks:
\* the constructor's start() has set its interval and its own call of
\* checkActiveTasks has returned
InitSwitch ==
    /\ tasks = <<"A", "B">>
    /\ storage = SavedStorage
    /\ notifier = "n1"
    /\ taskManualExecution = Null
    /\ currentChecksum = newCronChecksum(getTasks(storage, tasks))
    /\ cronTasks = StartAll(<<>>, getTasks(storage, tasks))
    /\ lastTick = "restarted"
    /\ runs = <<>>
    /\ lastManual = "none"
    /\ cfgChanged = FALSE
    /\ nWrites = 0
    /\ diagnosticsPlugin = NewDiagnosticsPlugin
    /\ ticks = <<>>
    /\ Constructed

NextSwitch ==
    \/ WriteSettings
    \/ \E enabled \in BOOLEAN : startStop(enabled)
    \/ \E h \in 1..MaxIntervals : IntervalTick(h)

SpecSwitch == InitSwitch /\ [][NextSwitch]_vars

\* a stored value that is not JSON is written among ordinary changes of the
\* configuration
NextDecode == Write \/ PutMalformed \/ Tick

SpecDecode == Init /\ [][NextDecode]_vars

\* the values found under the type key of a task that has none of the ten
\* types: nothing stored, an empty string, a name in another spelling
NoTaskType == {Absent, "", "restartScrypted"}

\* one task whose stored type is none of the ten, or RestartScrypted
InitNoType ==
    /\ tasks = <<"A">>
    /\ \E type \in NoTaskType \cup {"RestartScrypted"}, skipNotify \in {Absent, "true"},
          additionalNotifiers \in {Absent, "[\"n1\"]", "[\"n1\",\"n2\"]"} :
            storage = ExecStorage(type, skipNotify, additionalNotifiers)
    /\ notifier \in {Null, "n2"}
    /\ InitRest

SpecNoType == InitNoType /\ [][NextExec]_vars

\* one execution of the Diagnostics task when a validation of the diagnostics
\* plugin may reject; the execution is kept once it is over
NextDiagFault ==
    \/ Tick
    \/ \E i \in 1..MaxTimers : TimerFire(i)
    \/ Diagnose
    \/ \E r \in DOMAIN runs : DiagValidateThrows(r)
    \/ \E r \in 1..MaxRuns : RunSend(r)

SpecDiagFault == InitDiag /\ [][NextDiagFault]_vars

----------------------------------------------------------------------------
(* Notions the claims share.                                               *)

\* the running timers of the tracked list that belong to a task name
ActiveTimers(timers, taskName) ==
    { i \in DOMAIN timers : timers[i].running /\ timers[i].task.name = taskName }

\* the task name is configured and its decoded record is enabled
EnabledInStorage(taskName) ==
    /\ \E i \in DOMAIN tasks : tasks[i] = taskName
    /\ getTaskReturns(storage, taskName)
    /\ getTask(storage, taskName).enabled

\* a task whose expression makes startTaskCron schedule a timer
Schedulable(task) == task.cronScheduler \notin {Null, ""} /\ ValidCron(task.cronScheduler)

\* the latest call of checkActiveTasks returned and nothing was written since
AfterCompletedTick == ~cfgChanged /\ lastTick \in {"restarted", "unchanged"}

\* the timers a step appended to the tracked list
NewTimers == SubSeq(cronTasks', Len(cronTasks) + 1, Len(cronTasks'))

\* every timer tracked before the step is stopped after it
AllOldStopped == \A i \in DOMAIN cronTasks : ~cronTasks'[i].running

----------------------------------------------------------------------------
(* C1: after every completed reconciliation tick each enabled task has at  *)
(* most one active timer, and no disabled or removed task has an active    *)
(* timer.                                                                  *)
C1_OneTimerPerEnabledTask ==
    AfterCompletedTick =>
        \A n \in Names :
            IF EnabledInStorage(n)
            THEN Cardinality(ActiveTimers(cronTasks, n)) <= 1
            ELSE ActiveTimers(cronTasks, n) = {}

\* a completed tick after which a disabled or removed task, which had a timer
\* before, has none, while an enabled task has its single timer
C1_Witness ==
    /\ AfterCompletedTick
    /\ \E n \in Names :
          /\ ~EnabledInStorage(n)
          /\ \E i \in DOMAIN cronTasks : cronTasks[i].task.name = n
    /\ \E m \in Names :
          /\ EnabledInStorage(m)
          /\ Cardinality(ActiveTimers(cronTasks, m)) = 1

----------------------------------------------------------------------------
(* C2: a tick that follows a tick with no configuration write in between   *)
(* stops no timer, creates no timer, keeps the stored fingerprint and      *)
(* leaves every execution in flight as it is.                              *)
C2_SecondTickIsNoOp ==
    [][ (Tick /\ ~cfgChanged /\ lastTick # "none")
            => /\ cronTasks' = cronTasks
               /\ currentChecksum' = currentChecksum
               /\ runs' = runs
               /\ lastTick' = "unchanged" ]_vars

\* a second tick found nothing to do while a timer runs and an execution
\* is in flight
C2_Witness ==
    /\ ~cfgChanged
    /\ lastTick = "unchanged"
    /\ \E i \in DOMAIN cronTasks : cronTasks[i].running
    /\ \E r \in DOMAIN runs : runs[r].pc # "done"

----------------------------------------------------------------------------
(* C3.  The stored fingerprint is that of the current enabled list with a  *)
(* different cron expression for exactly one task.                         *)
OneCronChanged ==
    /\ getTasksReturns(storage, tasks)
    /\ \E taskEntities \in {getTasks(storage, tasks)} :
       \E idx \in DOMAIN taskEntities :
       \E old \in {Null, "", CronA, CronB, CronBad} \ {taskEntities[idx].cronScheduler} :
          currentChecksum =
              newCronChecksum([taskEntities EXCEPT ![idx].cronScheduler = old])

\* C3 as claimed: after one enabled task's cron expression changed, the next
\* tick stops every old timer and creates one new timer per enabled task
C3_Original ==
    [][ (Tick /\ OneCronChanged)
            => /\ lastTick' = "restarted"
               /\ AllOldStopped
               /\ NewTimers = [i \in DOMAIN getTasks(storage, tasks) |->
                                  Timer(getTasks(storage, tasks)[i])] ]_vars

\* C3 as amended: after one enabled task's cron expression changed, the
\* next tick sees a different fingerprint and replaces the whole timer set:
\* every old timer is stopped and one new timer is created per enabled task
\* whose cron expression is non-empty and valid, in list order; no old timer
\* is kept
C3_FullReplace ==
    [][ (Tick /\ OneCronChanged)
            => /\ lastTick' = "restarted"
               /\ currentChecksum' # currentChecksum
               /\ AllOldStopped
               /\ NewTimers = [i \in DOMAIN SelectSeq(getTasks(storage, tasks), Schedulable) |->
                                  Timer(SelectSeq(getTasks(storage, tasks), Schedulable)[i])] ]_vars

\* a tick replaced the timers after the cron expression of one of two
\* scheduled tasks changed: two stopped timers, then two running ones, the
\* unchanged task among them
C3_Witness ==
    /\ ~cfgChanged
    /\ lastTick = "restarted"
    /\ Len(cronTasks) = 4
    /\ ~cronTasks[1].running /\ ~cronTasks[2].running
    /\ cronTasks[3].running /\ cronTasks[4].running
    /\ cronTasks[1].task.name = cronTasks[3].task.name
    /\ cronTasks[1].task.cronScheduler # cronTasks[3].task.cronScheduler
    /\ cronTasks[2].task = cronTasks[4].task

----------------------------------------------------------------------------
(* C4: a tick leaves no running timer for a disabled task, and the tick    *)
(* after the task is enabled again with its other fields unchanged (the    *)
(* decoded record is the one its stopped timer holds) creates one timer    *)
(* for it with the same cron expression.                                   *)
DisabledInStorage(taskName) ==
    /\ \E i \in DOMAIN tasks : tasks[i] = taskName
    /\ getTaskReturns(storage, taskName)
    /\ ~getTask(storage, taskName).enabled

ReEnabledUnchanged(taskName) ==
    /\ EnabledInStorage(taskName)
    /\ ActiveTimers(cronTasks, taskName) = {}
    /\ \E i \in DOMAIN cronTasks : cronTasks[i].task = getTask(storage, taskName)

C4_DisableThenReEnable ==
    [][ Tick =>
          \A n \in Names :
             /\ DisabledInStorage(n) => ActiveTimers(cronTasks', n) = {}
             /\ ReEnabledUnchanged(n) =>
                   /\ Cardinality(ActiveTimers(cronTasks', n)) = 1
                   /\ \A i \in ActiveTimers(cronTasks', n) :
                         /\ i > Len(cronTasks)
                         /\ cronTasks'[i].task.cronScheduler
                               = getTask(storage, n).cronScheduler ]_vars

\* task A ran on a timer, was disabled (a tick then left only B's timer),
\* and was enabled again: the latest tick recreated A's timer with the cron
\* expression of the stopped one
C4_Witness ==
    /\ ~cfgChanged
    /\ lastTick = "restarted"
    /\ Len(cronTasks) = 5
    /\ cronTasks[1].task.name = "A" /\ ~cronTasks[1].running
    /\ cronTasks[2].task.name = "B" /\ ~cronTasks[2].running
    /\ cronTasks[3].task.name = "B" /\ ~cronTasks[3].running
    /\ cronTasks[4].task.name = "A" /\ cronTasks[4].running
    /\ cronTasks[4].task = cronTasks[1].task
    /\ cronTasks[5].task.name = "B" /\ cronTasks[5].running

----------------------------------------------------------------------------
(* C5: when the stop() of one timer throws during a tick that saw a        *)
(* fingerprint change, the tick still returns, every old timer is stopped  *)
(* and the enabled tasks get their new timers in that same tick.           *)
C5_StopFailureContained ==
    [][ \A i \in DOMAIN cronTasks :
           TickStopThrows(i) =>
              /\ lastTick' # "threw"
              /\ \A j \in DOMAIN cronTasks : j # i => ~cronTasks'[j].running
              /\ NewTimers = [k \in DOMAIN SelectSeq(getTasks(storage, tasks), Schedulable) |->
                                 Timer(SelectSeq(getTasks(storage, tasks), Schedulable)[k])] ]_vars

----------------------------------------------------------------------------
(* C6: in a tick that recreates the timers, an enabled task whose cron     *)
(* expression is empty or invalid gets no timer, the tick returns without  *)
(* an error, and every enabled task with a valid non-empty expression gets *)
(* exactly one new timer.                                                  *)
NewTimersOf(taskName) ==
    { i \in DOMAIN cronTasks' : /\ i > Len(cronTasks)
                                /\ cronTasks'[i].task.name = taskName }

C6_CreationFailureIsolated ==
    [][ (Tick /\ newCronChecksum(getTasks(storage, tasks)) # currentChecksum)
           => /\ lastTick' = "restarted"
              /\ \A n \in Names :
                   IF EnabledInStorage(n) /\ Schedulable(getTask(storage, n))
                   THEN /\ Cardinality(NewTimersOf(n)) = 1
                        /\ \A i \in NewTimersOf(n) : cronTasks'[i] = Timer(getTask(storage, n))
                   ELSE NewTimersOf(n) = {} ]_vars

\* a tick recreated the timers of a list whose first task has an invalid
\* expression: the second task, with a valid one, has its running timer
C6_Witness ==
    /\ ~cfgChanged
    /\ lastTick = "restarted"
    /\ Len(tasks) = 2
    /\ EnabledInStorage(tasks[1]) /\ EnabledInStorage(tasks[2])
    /\ getTask(storage, tasks[1]).cronScheduler = CronBad
    /\ ActiveTimers(cronTasks, tasks[1]) = {}
    /\ Cardinality(ActiveTimers(cronTasks, tasks[2])) = 1

----------------------------------------------------------------------------
(* C7: the fingerprint of a list of two distinct enabled tasks differs     *)
(* from the fingerprint of the same records in the other order, so a tick  *)
(* whose stored fingerprint is that of the other order restarts the timers.*)
Swapped(taskEntities) == <<taskEntities[2], taskEntities[1]>>

C7_OrderSensitiveFingerprint ==
    [][ (Tick /\ Len(getTasks(storage, tasks)) = 2)
           => /\ newCronChecksum(Swapped(getTasks(storage, tasks)))
                    # newCronChecksum(getTasks(storage, tasks))
              /\ currentChecksum = newCronChecksum(Swapped(getTasks(storage, tasks)))
                    => /\ lastTick' = "restarted"
                       /\ AllOldStopped
                       /\ currentChecksum' # currentChecksum ]_vars

\* the name list was reordered and nothing else: the tick stopped the two
\* timers and created two timers for the same records in the new order
C7_Witness ==
    /\ ~cfgChanged
    /\ lastTick = "restarted"
    /\ Len(cronTasks) = 4
    /\ ~cronTasks[1].running /\ ~cronTasks[2].running
    /\ cronTasks[3] = Timer(cronTasks[2].task)
    /\ cronTasks[4] = Timer(cronTasks[1].task)
    /\ cronTasks[1].task # cronTasks[2].task

----------------------------------------------------------------------------
(* C8: decoding is a function of the stored values alone: once a tick has  *)
(* completed and nothing was written since, a decode of the same storage   *)
(* yields the record every running timer got from the tick's decode and    *)
(* the fingerprint the tick stored; and a name with no stored key decodes  *)
(* without an error to rebootOnErrors = false, maxStats = 5,               *)
(* batteryThreshold = 30.                                                  *)
NoStoredKeys(taskName) ==
    \A field \in KeyFields : storage[getTaskKeys(taskName)[field]] = Absent

C8_DecodeDeterministicWithDefaults ==
    /\ AfterCompletedTick =>
          /\ currentChecksum = newCronChecksum(getTasks(storage, tasks))
          /\ \A i \in DOMAIN cronTasks :
                cronTasks[i].running =>
                   cronTasks[i].task = getTask(storage, cronTasks[i].task.name)
    /\ \A n \in Names :
          NoStoredKeys(n) =>
             /\ getTaskReturns(storage, n)
             /\ getTask(storage, n).rebootOnErrors = FALSE
             /\ getTask(storage, n).maxStats = 5
             /\ getTask(storage, n).batteryThreshold = 30

\* a tick decoded a list that holds a name with no stored key next to a
\* task that runs on a timer
C8_Witness ==
    /\ AfterCompletedTick
    /\ \E i \in DOMAIN tasks : NoStoredKeys(tasks[i])
    /\ \E i \in DOMAIN cronTasks : cronTasks[i].running

----------------------------------------------------------------------------
(* C9: with a stored value that is not valid serialized data, every decode *)
(* still returns, so neither a tick nor a manual execution ends in an      *)
(* error.                                                                  *)
C9_MalformedNeverErrors ==
    /\ lastTick # "threw"
    /\ lastManual # "threw"

----------------------------------------------------------------------------
(* C10: an execution whose branch set forceStop, or whose task has         *)
(* skipNotify = true, sends no notification: it resolves no notifier,      *)
(* never waits on a send and has sent nothing.                             *)
C10_NoNotificationWhenSuppressed ==
    \A r \in DOMAIN runs :
       (runs[r].pc # "dispatch" /\ (runs[r].forceStop \/ runs[r].task.skipNotify))
          => /\ runs[r].sent = <<>>
             /\ runs[r].notifiers = <<>>
             /\ runs[r].pc # "notify"

\* an execution finished with forceStop set by its branch, for a task that
\* does notify and has both additional notifiers and a default notifier
C10_Witness ==
    \E r \in DOMAIN runs :
       /\ runs[r].pc = "done"
       /\ runs[r].forceStop
       /\ ~runs[r].task.skipNotify
       /\ Len(runs[r].task.additionalNotifiers) = 2
       /\ notifier # Null

----------------------------------------------------------------------------
(* C11: when the notification is not suppressed, the targets are the       *)
(* task's additionalNotifiers if that list is non-empty and otherwise the  *)
(* default notifier alone (none if there is no default); the run sends one *)
(* notification per target, in list order, each with the task name as      *)
(* title, the accumulated message as body and the branch's priority.       *)
Targets(task) ==
    IF Len(task.additionalNotifiers) > 0 THEN task.additionalNotifiers
    ELSE IF notifier # Null THEN <<notifier>>
    ELSE <<>>

NotificationTo(run, to) ==
    [to |-> to, title |-> run.task.name, body |-> run.message, priority |-> run.priority]

C11_OneNotificationPerTarget ==
    \A r \in DOMAIN runs :
       (runs[r].pc # "dispatch" /\ ~runs[r].forceStop /\ ~runs[r].task.skipNotify)
          => /\ Len(runs[r].sent) <= Len(Targets(runs[r].task))
             /\ runs[r].sent = [i \in 1..Len(runs[r].sent) |->
                                   NotificationTo(runs[r], Targets(runs[r].task)[i])]
             /\ runs[r].pc = "notify" => Len(runs[r].sent) < Len(Targets(runs[r].task))
             /\ runs[r].pc \in {"deferred", "done"}
                   => Len(runs[r].sent) = Len(Targets(runs[r].task))

\* a run with a non-empty report sent it to its two additional notifiers, in
\* order, and not to the configured default notifier
C11_Witness ==
    \E r \in DOMAIN runs :
       /\ runs[r].pc = "done"
       /\ ~runs[r].forceStop /\ ~runs[r].task.skipNotify
       /\ runs[r].message # ""
       /\ runs[r].priority = "1"
       /\ runs[r].task.additionalNotifiers = <<"n1", "n2">>
       /\ notifier = "n2"
       /\ Len(runs[r].sent) = 2
       /\ runs[r].sent[1].to = "n1" /\ runs[r].sent[2].to = "n2"

----------------------------------------------------------------------------
(* C12: within one execution a restart of the host plugin or of the host   *)
(* process is the last call of the run and comes after every notification  *)
(* send of that run has completed; none is made during the branch or the   *)
(* notification phase, also when a send or the restart itself fails.       *)
HostRestart(call) ==
    \/ call.op = "restartPlugin" /\ call.target = scryptedName
    \/ call.op = "restartScrypted"

SendsBefore(calls, i) ==
    { j \in 1..(i - 1) : calls[j].op = "sendNotification" }

C12_DeferredAfterNotification ==
    \A r \in DOMAIN runs :
       /\ \A i \in DOMAIN runs[r].calls :
             HostRestart(runs[r].calls[i])
                => /\ i = Len(runs[r].calls)
                   /\ runs[r].pc \in {"done", "failed"}
                   /\ runs[r].deferredRan
                   /\ Len(runs[r].sent) = Len(runs[r].notifiers)
                   /\ Cardinality(SendsBefore(runs[r].calls, i)) = Len(runs[r].notifiers)
       /\ runs[r].deferredRan => HostRestart(runs[r].calls[Len(runs[r].calls)])

\* a run sent its report to two notifiers and then restarted the host
C12_Witness ==
    \E r \in DOMAIN runs :
       /\ runs[r].pc = "done"
       /\ Len(runs[r].sent) = 2
       /\ Len(runs[r].calls) >= 3
       /\ HostRestart(runs[r].calls[Len(runs[r].calls)])
       /\ runs[r].calls[Len(runs[r].calls) - 1].op = "sendNotification"

----------------------------------------------------------------------------
(* C13: for a RestartPlugins task whose plugin list holds this plugin, the *)
(* loop makes no restart call for this plugin's package; the self-restart  *)
(* is deferred, and it is made once, after the notification phase.         *)
SelfRestarts(calls) ==
    { i \in DOMAIN calls : calls[i].op = "restartPlugin" /\ calls[i].target = scryptedName }

C13_SelfRestartDeferred ==
    \A r \in DOMAIN runs :
       (/\ runs[r].task.type = "RestartPlugins"
        /\ Includes(runs[r].task.plugins, "pSelf")
        /\ runs[r].pc # "dispatch")
          => /\ runs[r].actionsToDefer = "restartSelf"
             /\ runs[r].pc \in {"notify", "deferred"} => SelfRestarts(runs[r].calls) = {}
             /\ runs[r].pc = "done"
                   => /\ SelfRestarts(runs[r].calls) = {Len(runs[r].calls)}
                      /\ Len(runs[r].sent) = Len(runs[r].notifiers)

\* a run restarted another plugin in its loop, notified two targets and only
\* then restarted this plugin
C13_Witness ==
    \E r \in DOMAIN runs :
       /\ runs[r].task.type = "RestartPlugins"
       /\ runs[r].task.plugins = <<"pSelf", "pOther">>
       /\ runs[r].pc = "done"
       /\ Len(runs[r].sent) = 2
       /\ runs[r].calls[1] = Call("restartPlugin", PackageOf("pOther"), Null)
       /\ SelfRestarts(runs[r].calls) = {4}

----------------------------------------------------------------------------
(* C14: in a finished RestartPlugins execution every target plugin other   *)
(* than this plugin was restarted by a restartPlugin call with its package *)
(* name made in the loop, and every plugin reported as "[package]:         *)
(* Restarted" has a restartPlugin call for that package.                   *)
RestartedLines(plugins) ==
    JoinStrings([i \in DOMAIN plugins |-> "[" \o PackageOf(plugins[i]) \o "]: Restarted\n"], "")

C14_EveryReportedRestartMade ==
    \A r \in DOMAIN runs :
       (runs[r].task.type = "RestartPlugins" /\ runs[r].pc = "done")
          => /\ runs[r].message = RestartedLines(runs[r].task.plugins)
             /\ \A i \in DOMAIN runs[r].task.plugins :
                   /\ \E j \in DOMAIN runs[r].calls :
                         /\ runs[r].calls[j].op = "restartPlugin"
                         /\ runs[r].calls[j].target = PackageOf(runs[r].task.plugins[i])
                   /\ runs[r].task.plugins[i] # "pSelf"
                         => \E j \in DOMAIN runs[r].calls :
                               /\ runs[r].calls[j] = Call("restartPlugin",
                                                          PackageOf(runs[r].task.plugins[i]), Null)
                               /\ SendsBefore(runs[r].calls, j) = {}

----------------------------------------------------------------------------
(* C15: an execution of a RestartScrypted task that has ended has asked    *)
(* for the host-process restart, whatever skipNotify is and however the    *)
(* notification phase went; it fails only when the restart call fails.     *)
C15_RestartAlwaysInvoked ==
    \A r \in DOMAIN runs :
       (runs[r].task.type = "RestartScrypted" /\ runs[r].pc \in {"done", "failed"})
          => /\ runs[r].deferredRan
             /\ runs[r].calls[Len(runs[r].calls)] = Call("restartScrypted", Null, Null)

----------------------------------------------------------------------------
(* C16: ReportHaConsumables, TomorrowEventsHa and                          *)
(* ReportHaUnavailableEntities set forceStop exactly when their result set *)
(* is empty (no flagged consumable, no event in either calendar window, no *)
(* matching unavailable entity); a run with forceStop sends nothing and a  *)
(* run with a non-empty result set does not set it.                        *)
Matches(patterns, id) == \E i \in DOMAIN patterns : RegExpTest(patterns[i], id)

MatchingUnavailable(task, statuses) ==
    { i \in DOMAIN statuses :
         /\ statuses[i].state = "unavailable"
         /\ Len(task.entitiesToAlwaysReport) > 0
               => Matches(task.entitiesToAlwaysReport, statuses[i].entity_id)
         /\ ~Matches(task.entitiesToExclude, statuses[i].entity_id) }

FlaggedConsumables(task, statuses) ==
    { i \in DOMAIN statuses :
         /\ Includes(task.entitiesToAlwaysReport, statuses[i].entity_id)
         /\ \/ /\ statuses[i].unit_of_measurement = "%"
               /\ ~Number(statuses[i].state).nan
               /\ Number(statuses[i].state).n < 10
            \/ /\ statuses[i].unit_of_measurement = "d"
               /\ ~Number(statuses[i].state).nan
               /\ Number(statuses[i].state).n <= 3
            \/ /\ statuses[i].unit_of_measurement \notin {"%", "d"}
               /\ statuses[i].device_class = "problem"
               /\ statuses[i].state = "on" }

ResultSetEmpty(run) ==
    CASE run.task.type = "ReportHaUnavailableEntities" ->
            MatchingUnavailable(run.task, run.inputs.statuses) = {}
      [] run.task.type = "ReportHaConsumables" ->
            FlaggedConsumables(run.task, run.inputs.statuses) = {}
      [] OTHER -> run.inputs.hits = 0 /\ run.inputs.later = 0

----------------------------------------------------------------------------
(* C17: ReportHaBatteryStatus never sets forceStop: for every list of      *)
(* entity states the message is not empty, a notification with that body   *)
(* is sent (skipNotify false, a notifier set), and when no entity          *)
(* qualifies the body is the all-ok line.                                  *)
BatteryClass(task, entity) ==
    /\ ~Includes(task.entitiesToExclude, entity.entity_id)
    /\ entity.device_class = "battery"
    /\ \/ StartsWith(entity.entity_id, "sensor.")
       \/ StartsWith(entity.entity_id, "binary_sensor.")

IsLow(task, entity) ==
    IF StartsWith(entity.entity_id, "sensor.")
    THEN /\ ~Number(entity.state).nan
         /\ Number(entity.state).n < task.batteryThreshold
    ELSE entity.state = "on"

\* the entities of the low-battery section and of the tracked section
LowEntities(task, statuses) ==
    SelectSeq(statuses, LAMBDA e : /\ BatteryClass(task, e)
                                   /\ ~Includes(task.entitiesToAlwaysReport, e.entity_id)
                                   /\ IsLow(task, e))

TrackedEntities(task, statuses) ==
    SelectSeq(statuses, LAMBDA e : /\ BatteryClass(task, e)
                                   /\ Includes(task.entitiesToAlwaysReport, e.entity_id))

BatteryLine(entity) ==
    IF StartsWith(entity.entity_id, "sensor.")
    THEN entity.friendly_name \o " (" \o entity.state \o "%)"
    ELSE entity.friendly_name

BatteryLines(entities) ==
    JoinStrings([i \in DOMAIN entities |-> BatteryLine(entities[i]) \o "\n"], "")

C17_BatteryAlwaysReports ==
    \A r \in DOMAIN runs :
       (runs[r].task.type = "ReportHaBatteryStatus" /\ runs[r].pc # "dispatch")
          => /\ ~runs[r].forceStop
             /\ runs[r].message # ""
             /\ (/\ LowEntities(runs[r].task, runs[r].inputs.statuses) = <<>>
                 /\ TrackedEntities(runs[r].task, runs[r].inputs.statuses) = <<>>)
                   => runs[r].message = "All batteries ok\n"
             /\ runs[r].notifiers = <<notifier>>
             /\ runs[r].pc = "done"
                   => /\ Len(runs[r].sent) = 1
                      /\ runs[r].sent[1].body = runs[r].message

\* a battery run fetched entities none of which is low and sent the all-ok line
C17_Witness ==
    \E r \in DOMAIN runs :
       /\ runs[r].task.type = "ReportHaBatteryStatus"
       /\ runs[r].pc = "done"
       /\ Len(runs[r].inputs.statuses) >= 2
       /\ Len(runs[r].sent) = 1
       /\ runs[r].sent[1].body = "All batteries ok\n"

----------------------------------------------------------------------------
(* C18: in a ReportHaBatteryStatus report with empty                       *)
(* entitiesToAlwaysReport the lines are exactly, in the order fetched, the *)
(* non-excluded battery-class sensors whose numeric state is below         *)
(* batteryThreshold and the non-excluded battery-class binary sensors in   *)
(* state "on"; atLeast1LowBattery is true exactly when there is one.       *)
C18_ExactlyTheLowBatteries ==
    \A r \in DOMAIN runs :
       (/\ runs[r].task.type = "ReportHaBatteryStatus"
        /\ runs[r].task.entitiesToAlwaysReport = <<>>
        /\ runs[r].pc # "dispatch")
          => /\ runs[r].atLeast1 = (LowEntities(runs[r].task, runs[r].inputs.statuses) # <<>>)
             /\ runs[r].message
                   = (IF LowEntities(runs[r].task, runs[r].inputs.statuses) # <<>>
                      THEN BatteryLines(LowEntities(runs[r].task, runs[r].inputs.statuses))
                      ELSE "All batteries ok\n")

\* threshold 30, sensor.a at 15 and sensor.b at 80: only sensor.a is reported
C18_Witness ==
    \E r \in DOMAIN runs :
       /\ runs[r].task.type = "ReportHaBatteryStatus"
       /\ runs[r].task.entitiesToAlwaysReport = <<>>
       /\ runs[r].task.entitiesToExclude = <<>>
       /\ runs[r].task.batteryThreshold = 30
       /\ runs[r].pc = "done"
       /\ Len(runs[r].inputs.statuses) = 2
       /\ runs[r].inputs.statuses[1].entity_id = "sensor.a"
       /\ runs[r].inputs.statuses[1].state = "15"
       /\ runs[r].inputs.statuses[2].entity_id = "sensor.b"
       /\ runs[r].inputs.statuses[2].state = "80"
       /\ runs[r].message = "Sensor A (15%)\n"
       /\ runs[r].atLeast1

----------------------------------------------------------------------------
(* C19 as stated: in a ReportHaBatteryStatus report every entity of        *)
(* entitiesToAlwaysReport that is among the fetched states has a line in   *)
(* the tracked section.                                                    *)
C19_Original ==
    \A r \in DOMAIN runs :
       (runs[r].task.type = "ReportHaBatteryStatus" /\ runs[r].pc # "dispatch")
          => \A i \in DOMAIN runs[r].inputs.statuses :
                Includes(runs[r].task.entitiesToAlwaysReport,
                         runs[r].inputs.statuses[i].entity_id)
                   => Includes(runs[r].trackedEntries,
                               BatteryLine(runs[r].inputs.statuses[i]))

(* C19 amended: the tracked section lists, in the order fetched and        *)
(* whatever their level, exactly the fetched entities of                   *)
(* entitiesToAlwaysReport that are battery-class sensors or binary sensors *)
(* and are not in entitiesToExclude; it follows the low-battery lines,     *)
(* after a divider when there are any.                                     *)
C19_TrackedAlwaysListed ==
    \A r \in DOMAIN runs :
       (runs[r].task.type = "ReportHaBatteryStatus" /\ runs[r].pc # "dispatch")
          => /\ runs[r].trackedEntries
                   = [i \in DOMAIN TrackedEntities(runs[r].task, runs[r].inputs.statuses) |->
                        BatteryLine(TrackedEntities(runs[r].task, runs[r].inputs.statuses)[i])]
             /\ TrackedEntities(runs[r].task, runs[r].inputs.statuses) # <<>>
                   => runs[r].message
                        = BatteryLines(LowEntities(runs[r].task, runs[r].inputs.statuses))
                          \o (IF LowEntities(runs[r].task, runs[r].inputs.statuses) # <<>>
                              THEN divider \o "\n" ELSE "")
                          \o BatteryLines(TrackedEntities(runs[r].task, runs[r].inputs.statuses))

\* sensor.b at 80 and binary_sensor.c "off" are tracked and listed after the
\* low sensor.a and the divider
C19_Witness ==
    \E r \in DOMAIN runs :
       /\ runs[r].task.type = "ReportHaBatteryStatus"
       /\ runs[r].task.entitiesToAlwaysReport = <<"sensor.b", "binary_sensor.c">>
       /\ runs[r].pc = "done"
       /\ runs[r].message = "Sensor A (15%)\n" \o divider \o "\nSensor B (80%)\nSensor C\n"
       /\ Len(runs[r].sent) = 1

----------------------------------------------------------------------------
(* C20: for every registry version list, UpdatePlugins with beta=false     *)
(* selects the latest version that is not a beta, also when a newer beta   *)
(* exists, and with beta=true the newest version whatever its tag: that    *)
(* version is installed unless it is the installed one.                    *)
NonBeta(data) == { v \in data.versions : TagOf(data, v) # "beta" }

ExpectedVersion(data, beta) ==
    IF beta THEN NewestOf(data.versions) ELSE NewestOf(NonBeta(data))

Installs(calls, package) ==
    { calls[i].detail : i \in { j \in DOMAIN calls : /\ calls[j].op = "installNpm"
                                                      /\ calls[j].target = package } }

C20_SelectsLatestOfChannel ==
    \A r \in DOMAIN runs :
       (runs[r].task.type = "UpdatePlugins" /\ runs[r].pc # "dispatch")
          => \A i \in DOMAIN runs[r].task.plugins :
                Installs(runs[r].calls, PackageOf(runs[r].task.plugins[i]))
                   = { ExpectedVersion(runs[r].inputs.registry[PackageOf(runs[r].task.plugins[i])],
                                       runs[r].task.beta) }
                     \ { InstalledVersion(runs[r].task.plugins[i]) }

----------------------------------------------------------------------------
(* Missing registry data and unknown ids.                                  *)

\* the ids a task of the four types works on
TargetIds(task) ==
    IF task.type \in {"Diagnostics", "RestartCameras"} THEN task.devices ELSE task.plugins

\* the run asked the registry about the package of the plugin
AskedFor(run, pluginId) ==
    \E c \in DOMAIN run.calls : run.calls[c] = Call("checkNpmUpdate", PackageOf(pluginId), Null)

\* C21: when the registry has no data for a target plugin of an UpdatePlugins
\* task, the execution is not aborted: every target plugin is still asked
\* for and the run goes on to its notifications.
C21_NoDataNotFatal ==
    \A r \in DOMAIN runs :
        (/\ runs[r].task.type = "UpdatePlugins"
         /\ runs[r].pc # "dispatch"
         /\ \E i \in DOMAIN runs[r].task.plugins :
               runs[r].inputs.registry[PackageOf(runs[r].task.plugins[i])].error)
        => /\ runs[r].pc # "failed"
           /\ \A i \in DOMAIN runs[r].task.plugins : AskedFor(runs[r], runs[r].task.plugins[i])

\* C22: a target id the system does not know does not abort a Diagnostics,
\* RestartCameras, RestartPlugins or UpdatePlugins execution: the run never
\* fails and goes on to its notifications.
C22_UnknownIdCaught ==
    \A r \in DOMAIN runs :
        (/\ runs[r].task.type \in {"Diagnostics", "RestartCameras", "RestartPlugins",
                                   "UpdatePlugins"}
         /\ \E i \in DOMAIN TargetIds(runs[r].task) : ~Known(TargetIds(runs[r].task)[i]))
        => runs[r].pc # "failed"

----------------------------------------------------------------------------
(* Only newer versions are installed.                                      *)

\* C30: UpdatePlugins installs a version of a package only if it is newer
\* than the installed version of that plugin, never an older or equal one.
C30_InstallsOnlyNewer ==
    \A r \in DOMAIN runs :
        \A c \in DOMAIN runs[r].calls :
            runs[r].calls[c].op = "installNpm"
            => \A id \in PluginIds :
                  PackageOf(id) = runs[r].calls[c].target
                  => SemverRank(runs[r].calls[c].detail) > SemverRank(InstalledVersion(id))

----------------------------------------------------------------------------
(* The reboots of a Diagnostics execution.                                 *)

\* the devices the run asked to reboot, in the order of the calls
RebootsMade(run) ==
    [i \in DOMAIN SelectSeq(run.calls, LAMBDA call : call.op = "reboot") |->
        SelectSeq(run.calls, LAMBDA call : call.op = "reboot")[i].target]

\* the validated devices of the run that reported an error step and expose
\* the Reboot interface, if the task reboots on errors
RebootsDue(run) ==
    [i \in DOMAIN SelectSeq(run.validated,
                            LAMBDA v : /\ run.task.rebootOnErrors
                                       /\ v.target # "System"
                                       /\ HasReboot(v.target)
                                       /\ v.errorSteps # <<>>) |->
        SelectSeq(run.validated,
                  LAMBDA v : /\ run.task.rebootOnErrors
                             /\ v.target # "System"
                             /\ HasReboot(v.target)
                             /\ v.errorSteps # <<>>)[i].target]

\* C23: a Diagnostics execution reboots a device exactly when the task has
\* rebootOnErrors, the validation of the device reported an error step and
\* the device exposes Reboot (dCam1 does, dCam2 does not); the validation of
\* the system reboots nothing.
C23_RebootIffErrorsAndCapable ==
    \A r \in DOMAIN runs :
        runs[r].task.type = "Diagnostics"
        => IF runs[r].pc = "diagReboot"
           THEN RebootsDue(runs[r])
                   = Append(RebootsMade(runs[r]), runs[r].task.devices[runs[r].target])
           ELSE RebootsDue(runs[r]) = RebootsMade(runs[r])

\* both cameras and the system reported an error step, and only the camera
\* with the Reboot interface was rebooted
C23_Witness ==
    \E r \in DOMAIN runs :
        /\ runs[r].task.rebootOnErrors
        /\ runs[r].task.devices = <<"dCam2", "dCam1">>
        /\ Len(runs[r].validated) = 3
        /\ \A k \in 1..3 : runs[r].validated[k].errorSteps # <<>>
        /\ runs[r].validated[3].target = "System"
        /\ RebootsMade(runs[r]) = <<"dCam1">>
        /\ runs[r].pc = "done"

----------------------------------------------------------------------------
(* Overlapping Diagnostics executions.                                     *)

\* what a validation that runs alone returns for a step with the outcome
AloneResult(v) ==
    [okSteps |-> IF v.outcome \in {"ok", "warn"} THEN <<v.target>> ELSE <<>>,
     warnSteps |-> IF v.outcome = "warn" THEN <<v.target>> ELSE <<>>,
     errorSteps |-> IF v.outcome = "error" THEN <<v.target>> ELSE <<>>]

\* no call of runValidate is in progress
NoValidationInProgress ==
    \A r \in DOMAIN runs : runs[r].pc \notin {"diagValidate", "diagEnd"}

\* C26: Diagnostics executions that overlap share no mutable state: every
\* validation checks the device of its own run and classifies its step as
\* it would alone, and once no validation is in progress the validate and
\* warnStep hooks of the diagnostics plugin are the original ones.
C26_OverlapSharesNothing ==
    /\ \A r \in DOMAIN runs :
          \A k \in DOMAIN runs[r].validated :
              /\ runs[r].validated[k].device = runs[r].validated[k].target
              /\ runs[r].validated[k].okSteps = AloneResult(runs[r].validated[k]).okSteps
              /\ runs[r].validated[k].warnSteps = AloneResult(runs[r].validated[k]).warnSteps
              /\ runs[r].validated[k].errorSteps = AloneResult(runs[r].validated[k]).errorSteps
    /\ NoValidationInProgress
       => /\ diagnosticsPlugin.validate = NewDiagnosticsPlugin.validate
          /\ diagnosticsPlugin.warnStep = NewDiagnosticsPlugin.warnStep

----------------------------------------------------------------------------
(* The manual trigger.                                                     *)

\* C27: a use of the manual trigger decodes the selected task from the
\* storage as it is and starts exactly one execution of it, whatever its
\* enabled flag and its cron expression; it leaves the timers, the stored
\* fingerprint and the storage alone, and with no task selected it starts
\* nothing.
C27_ManualTriggerRunsOnce ==
    [][lastManual' # lastManual
       => /\ cronTasks' = cronTasks
          /\ currentChecksum' = currentChecksum
          /\ storage' = storage
          /\ runs' = IF taskManualExecution = Null THEN runs
                     ELSE Append(runs, NewRun(getTask(storage, taskManualExecution)))]_vars

\* the manual trigger started a task that is disabled in the storage while
\* the timer of its enabled version, not yet reconciled, is still running
C27_Witness ==
    /\ lastManual = "started"
    /\ \E r \in DOMAIN runs :
          /\ ~runs[r].task.enabled
          /\ runs[r].task.name = taskManualExecution
          /\ runs[r].task = getTask(storage, taskManualExecution)
          /\ \E i \in DOMAIN cronTasks :
                /\ cronTasks[i].running
                /\ cronTasks[i].task.name = runs[r].task.name
                /\ cronTasks[i].task.enabled

----------------------------------------------------------------------------
(* The steps of a tick.                                                    *)

\* C28: in a tick that found the fingerprint changed, every timer that was
\* there before the tick is stopped by the time the first new timer is
\* created: while the tick creates its timers, no timer of the earlier
\* generation is running.
C28_OldStoppedBeforeNewCreated ==
    \A i \in DOMAIN ticks :
        ticks[i].pc = "start"
        => \A j \in 1..ticks[i].oldCount : ~cronTasks[j].running

\* a tick between two creations: two timers of the earlier generation are
\* stopped and the first timer of the new generation is running
C28_Witness ==
    \E i \in DOMAIN ticks :
        /\ ticks[i].pc = "start"
        /\ ticks[i].next = 2
        /\ ticks[i].oldCount = 2
        /\ Len(ticks[i].taskEntities) = 2
        /\ Len(cronTasks) = 3
        /\ cronTasks[3].running

\* C29: ticks never overlap: at most one call of checkActiveTasks, the one
\* of the startup or one of the interval, is in progress at any time.
C29_TicksNeverOverlap == Len(ticks) <= 1

\* a tick of the interval is in the middle of recreating the timers after
\* the tick of the startup has created the first generation
C29_Witness ==
    /\ Len(ticks) = 1
    /\ ticks[1].kind = "interval"
    /\ ticks[1].pc = "start"
    /\ ticks[1].oldCount > 0
    /\ ticks[1].next <= Len(ticks[1].taskEntities)

----------------------------------------------------------------------------
(* Calls that are rejected.                                                *)

\* the calls of the run whose target rejected them
RejectedCalls(run) ==
    { c \in DOMAIN run.calls :
        /\ run.calls[c].op \in {"reboot", "restartPlugin", "installNpm"}
        /\ run.calls[c].target \in run.inputs.faulty }

\* the run stops at the rejected call: nothing is called after it, nothing
\* is sent and no deferred action runs
AbortedAtRejection(run) ==
    /\ run.pc = "failed"
    /\ RejectedCalls(run) = {Len(run.calls)}
    /\ run.sent = <<>>
    /\ ~run.deferredRan

\* the timer that started the run is still running and fires again
TimerStillFires(run) ==
    \E i \in DOMAIN cronTasks :
        /\ cronTasks[i].running
        /\ cronTasks[i].task = run.task
        /\ Len(runs) < MaxOverlap => ENABLED TimerFireOverlap(i)

\* C24: a rejected reboot, restart or install call aborts the rest of its
\* execution only: the run makes no further call, sends no notification and
\* runs no deferred action; the step leaves the fingerprint, the timers and
\* the other executions as they were, and the timer of the task still fires.
C24_RejectionAbortsOnlyThatRun ==
    /\ [](\A r \in DOMAIN runs :
             (RejectedCalls(runs[r]) # {} \/ runs[r].pc = "failed")
             => AbortedAtRejection(runs[r]) /\ TimerStillFires(runs[r]))
    /\ [][\A r \in DOMAIN runs :
             (runs[r].pc # "failed" /\ runs'[r].pc = "failed")
             => /\ cronTasks' = cronTasks
                /\ currentChecksum' = currentChecksum
                /\ \A q \in DOMAIN runs : q # r => runs'[q] = runs[q]]_vars

\* the reboot of a RestartCameras execution was rejected while the execution
\* of the other task went on to its end, and the timer of the failed task
\* is running
C24_Witness ==
    /\ Len(runs) = 2
    /\ runs[1].task.type = "RestartCameras"
    /\ runs[1].pc = "failed"
    /\ runs[1].message # ""
    /\ runs[2].task.name = "B"
    /\ runs[2].pc = "done"
    /\ runs[2].deferredRan
    /\ \E i \in DOMAIN cronTasks : cronTasks[i].running /\ cronTasks[i].task = runs[1].task

----------------------------------------------------------------------------
(* A call that never returns.                                              *)

\* the execution of task A waits for a call that never returns
Hung(taskName) ==
    \E r \in DOMAIN runs : runs[r].task.name = taskName /\ runs[r].pc = "hung"

\* a timer of the task has just fired
Started(taskName) ==
    \E r \in DOMAIN runs : runs[r].task.name = taskName /\ runs[r].pc = "dispatch"

\* an execution of the task is over, its deferred action made
Completed(taskName) ==
    \E r \in DOMAIN runs :
        /\ runs[r].task.name = taskName
        /\ runs[r].pc = "done"
        /\ runs[r].sent # <<>>
        /\ runs[r].deferredRan

\* the timers are those of the stored configuration
Reconciled ==
    /\ ~cfgChanged
    /\ currentChecksum = newCronChecksum(getTasks(storage, tasks))

\* C25: a call that never returns stalls its own execution only: the
\* execution stays where it is for good, while the ticks go on and bring the
\* timers in line with every change of the configuration, and the timer of
\* the other task goes on firing and its executions go on to their end.
C25_HangStallsOnlyThatRun ==
    /\ [][Hung("A") => Hung("A")']_vars
    /\ (Hung("A") /\ cfgChanged) ~> (Hung("A") /\ Reconciled)
    /\ Hung("A") ~> (Hung("A") /\ Started("B"))
    /\ (Hung("A") /\ Started("B")) ~> (Hung("A") /\ Completed("B"))
    /\ [](Hung("A") => ENABLED Tick)

\* the execution of task A hangs, the change of the schedule of task B was
\* reconciled, and an execution of B started by its new timer is over
C25_Witness ==
    /\ Hung("A")
    /\ nWrites = 1
    /\ Reconciled
    /\ lastTick = "restarted"
    /\ \E r \in DOMAIN runs :
          /\ runs[r].task.name = "B"
          /\ runs[r].task.cronScheduler = CronA
          /\ runs[r].pc = "done"
          /\ runs[r].deferredRan

----------------------------------------------------------------------------
(* The scan of the other plugins.                                          *)

\* how often the run asked the registry about the package of the plugin
TimesAsked(run, pluginId) ==
    Cardinality({ c \in DOMAIN run.calls :
                     run.calls[c] = Call("checkNpmUpdate", PackageOf(pluginId), Null) })

\* how often the id stands in the list
Occurrences(list, id) == Cardinality({ i \in DOMAIN list : list[i] = id })

\* the known plugins outside the target list
OutsideTargets(task) ==
    { getAllPlugins[i] : i \in DOMAIN getAllPlugins } \ { task.plugins[i] : i \in DOMAIN task.plugins }

\* the answer of the registry check for a plugin of the run
UpdateOf(run, pluginId) ==
    pluginHasUpdate(run.inputs.registry[PackageOf(pluginId)], InstalledVersion(pluginId),
                    run.task.beta)

\* the report lines of the outdated ones among the plugins from the i-th on
RECURSIVE OutdatedLines(_, _, _)
OutdatedLines(run, ids, i) ==
    IF i > Len(ids) THEN ""
    ELSE (IF ids[i] \in OutsideTargets(run.task) /\ UpdateOf(run, ids[i]).newVersion # Undefined
          THEN "[" \o PackageOf(ids[i]) \o "]: New version available "
                   \o UpdateOf(run, ids[i]).newVersion
                   \o (IF UpdateOf(run, ids[i]).isBeta THEN " (beta)" ELSE "") \o "\n"
          ELSE "")
         \o OutdatedLines(run, ids, i + 1)

\* what the loop over the target plugins left in the report
TargetsReport(run) == UpdatePluginsEach(BranchStart, run.task.plugins, 1, run.task, run.inputs).message

\* C31: with checkAllPlugins an UpdatePlugins execution asks the registry
\* once about every known plugin outside the target list and reports those
\* of them that are outdated, after the lines of the targets and in the
\* order of the known plugins (or says that none is); it installs nothing
\* for a plugin outside the target list, and it asks about a target plugin
\* only in the loop over the targets, not a second time.
C31_OthersScannedNotInstalled ==
    \A r \in DOMAIN runs :
        (/\ runs[r].task.type = "UpdatePlugins"
         /\ runs[r].task.checkAllPlugins
         /\ runs[r].pc \notin {"dispatch", "failed", "hung"})
        => /\ \A id \in OutsideTargets(runs[r].task) :
                 /\ TimesAsked(runs[r], id) = 1
                 /\ Installs(runs[r].calls, PackageOf(id)) = {}
           /\ \A i \in DOMAIN runs[r].task.plugins :
                 TimesAsked(runs[r], runs[r].task.plugins[i])
                    = Occurrences(runs[r].task.plugins, runs[r].task.plugins[i])
           /\ runs[r].message
                 = TargetsReport(runs[r])
                   \o (IF OutdatedLines(runs[r], getAllPlugins, 1) # ""
                       THEN OutdatedLines(runs[r], getAllPlugins, 1)
                       ELSE "\nAll the other plugins are on the latest version\n")

\* an execution with checkAllPlugins that installed a version for a target
\* and found a plugin outside the list outdated
C31_Witness ==
    \E r \in DOMAIN runs :
        /\ runs[r].task.type = "UpdatePlugins"
        /\ runs[r].task.checkAllPlugins
        /\ runs[r].pc = "done"
        /\ \E i \in DOMAIN runs[r].task.plugins :
              Installs(runs[r].calls, PackageOf(runs[r].task.plugins[i])) # {}
        /\ \E id \in OutsideTargets(runs[r].task) : UpdateOf(runs[r], id).newVersion # Undefined

----------------------------------------------------------------------------
(* The count sections of the plugin status snapshot.                       *)

\* the counts of the list never go up
Descending(list) == \A i \in 1..(Len(list) - 1) : list[i].count >= list[i + 1].count

\* the section is made of entries of the source, at most maxStats of them,
\* and no entry left out counts more than one that is kept: the section is
\* full or leaves out only entries that count nothing
HoldsLargest(section, source, maxStats) ==
    /\ Len(section) <= maxStats
    /\ \A i \in DOMAIN section : \E j \in DOMAIN source : source[j] = section[i]
    /\ \A j \in DOMAIN source :
          (\A i \in DOMAIN section : section[i] # source[j])
             => /\ \A i \in DOMAIN section : section[i].count >= source[j].count
                /\ Len(section) = maxStats \/ source[j].count = 0

\* the sections of the snapshot of a run, each with the list it is taken from
CountSections(run) ==
    { <<run.stats[1].rpcObjects, RpcData(run.inputs, "rpcObjects")>>,
      <<run.stats[1].pendingResults, RpcData(run.inputs, "pendingResults")>>,
      <<run.stats[1].connections, RpcData(run.inputs, "clientsCount")>> }
    \cup (IF run.stats[1].cluster = <<>> THEN {}
          ELSE { <<run.stats[1].cluster[1].workers, workersData(run.inputs.cluster[1])>>,
                 <<run.stats[1].cluster[1].devices, devicesData(run.inputs.cluster[1])>> })

\* C32: in the snapshot of a ReportPluginsStatus execution every count
\* section (RPC objects, pending results, connections, cluster workers,
\* cluster devices) has at most maxStats entries, in descending order of
\* count, and they are the largest entries of its source.
C32_SectionsCappedAndSorted ==
    \A r \in DOMAIN runs :
        (runs[r].task.type = "ReportPluginsStatus" /\ runs[r].stats # <<>>)
        => \A sec \in CountSections(runs[r]) :
              /\ Descending(sec[1])
              /\ HoldsLargest(sec[1], sec[2], runs[r].task.maxStats)

----------------------------------------------------------------------------
(* The targets of an execution are worked on one after the other.          *)

\* what a call of the loop names its target by
CallKey(task, id) == IF task.type = "RestartCameras" THEN id ELSE PackageOf(id)

\* the calls are those of the positions 1..n of the list, in list order: a
\* position can be given to every call, never going back
InListOrder(calls, task, n) ==
    \E f \in [DOMAIN calls -> 1..n] :
        /\ \A k \in DOMAIN calls : calls[k].target = CallKey(task, LoopList(task)[f[k]])
        /\ \A k \in DOMAIN calls : \A l \in DOMAIN calls : k < l => f[k] <= f[l]

\* the report line of position i: what its iteration writes
LineOf(run, i) ==
    LoopBody(BranchStart, run.task, LoopList(run.task)[i], run.inputs).message

\* the lines of the positions i..n, in list order
RECURSIVE LinesOf(_, _, _)
LinesOf(run, i, n) == IF i > n THEN "" ELSE LineOf(run, i) \o LinesOf(run, i + 1, n)

\* what the check of the other plugins adds after the lines of the targets
OthersReport(run) ==
    IF run.task.type = "UpdatePlugins" /\ run.task.checkAllPlugins
    THEN IF OutdatedLines(run, getAllPlugins, 1) # "" THEN OutdatedLines(run, getAllPlugins, 1)
         ELSE "\nAll the other plugins are on the latest version\n"
    ELSE ""

\* the line of the k-th validation of a Diagnostics run
DiagLine(run, k) ==
    "[" \o (IF k = SystemTarget(run) THEN "System" ELSE DeviceName(run.task.devices[k])) \o "]: "
    \o ValidateText(run.validated[k].warnSteps, run.validated[k].errorSteps)
    \o (IF /\ k # SystemTarget(run)
           /\ run.task.rebootOnErrors
           /\ Len(run.validated[k].errorSteps) > 0
           /\ HasReboot(run.task.devices[k])
        THEN " | Restarting |" ELSE "")
    \o (IF k = SystemTarget(run) THEN "" ELSE "\n")

RECURSIVE DiagLines(_, _, _)
DiagLines(run, k, n) == IF k > n THEN "" ELSE DiagLine(run, k) \o DiagLines(run, k + 1, n)

\* a loop of RestartPlugins, UpdatePlugins or RestartCameras
LoopSequential(run) ==
    \* one iteration at a time: the calls waited for are those of the position
    \* the loop is at
    /\ \A k \in DOMAIN run.pending : run.pending[k].index = run.target
    /\ run.pending # <<>> => run.pc \in {"awaitCall", "hung"}
    /\ run.pc \in {"loop", "awaitCall"}
          => /\ InListOrder(run.calls, run.task, run.target)
             /\ run.message = LinesOf(run, 1, IF run.pc = "loop" \/ run.task.type = "RestartCameras"
                                              THEN run.target ELSE run.target - 1)
    /\ run.pc \in {"notify", "deferred", "done"}
          => run.message = LinesOf(run, 1, Len(LoopList(run.task))) \o OthersReport(run)

\* the loop of Diagnostics: runValidate of a target, then its reboot
DiagSequential(run) ==
    /\ \A k \in DOMAIN run.validated : run.validated[k].target = TargetName(run, k)
    /\ run.pc \in {"diagValidate", "diagEnd"} => run.target = Len(run.validated) + 1
    /\ run.pc = "diagReboot" => run.target = Len(run.validated)
    /\ InListOrder(SelectSeq(run.calls, LAMBDA c : c.op = "reboot"),
                   [run.task EXCEPT !.type = "RestartCameras"], Len(run.validated))
    /\ run.pc \in {"diagValidate", "diagEnd"} => run.message = DiagLines(run, 1, run.target - 1)
    /\ run.pc \in {"notify", "deferred", "done"}
          => /\ Len(run.validated) = Len(run.task.devices)
                                       + (IF run.task.runSystemDiagnostic THEN 1 ELSE 0)
             /\ run.message = DiagLines(run, 1, Len(run.validated))

\* C33: within one execution of Diagnostics, RestartPlugins, UpdatePlugins or
\* RestartCameras the targets are worked on one after the other in the order
\* of the configured list: the call for a target is made only when the calls
\* for the targets before it are over, and the report has the lines of the
\* targets in the order of the list.
C33_TargetsInListOrder ==
    \A r \in DOMAIN runs :
        /\ runs[r].task.type \in LoopTypes /\ runs[r].pc # "dispatch" => LoopSequential(runs[r])
        /\ runs[r].task.type = "Diagnostics" => DiagSequential(runs[r])

\* an execution over two different targets that is waiting for the call of
\* the second, the call of the first being over
C33_Witness ==
    \E r \in DOMAIN runs :
        /\ runs[r].task.type \in LoopTypes
        /\ runs[r].pc = "awaitCall"
        /\ runs[r].target = 2
        /\ LoopList(runs[r].task)[1] # LoopList(runs[r].task)[2]
        /\ Len(Returned(runs[r])) > 0

----------------------------------------------------------------------------
(* Every execution is a run of its own.                                    *)

\* the warnings and errors a validation returned are those of its own step:
\* the lists hold nothing, or the device it checked under the outcome of
\* its step
OnlyOwnSteps(v) ==
    /\ v.warnSteps \in {<<>>, IF v.outcome = "warn" THEN <<v.device>> ELSE <<>>}
    /\ v.errorSteps \in {<<>>, IF v.outcome = "error" THEN <<v.device>> ELSE <<>>}

\* the body is the report of the run, made of its own text only
OwnReport(run, body) ==
    IF run.task.type = "Diagnostics"
    THEN /\ body = DiagLines(run, 1, Len(run.validated))
         /\ \A k \in DOMAIN run.validated : OnlyOwnSteps(run.validated[k])
    ELSE body = Branch(run.task, run.inputs).message

\* the run made the deferred call
DeferredCalls(run) ==
    { c \in DOMAIN run.calls : run.calls[c].op \in {"restartScrypted"}
                               \/ run.calls[c] = Call("restartPlugin", scryptedName, Null) }

\* C34: every timer fire starts a run of its own, also while another run of
\* the same or of another task is in progress: the body of a notification of
\* a run is the report of that run alone, with no text that comes from the
\* other run, and a run is dispatched once, notifies each of its notifiers
\* once and runs its deferred action at most once.
C34_RunsIndependent ==
    /\ [](\A r \in DOMAIN runs :
             /\ \A k \in DOMAIN runs[r].sent : OwnReport(runs[r], runs[r].sent[k].body)
             /\ Len(runs[r].sent) <= Len(runs[r].notifiers)
             /\ Cardinality(DeferredCalls(runs[r])) <= 1)
    /\ [][\A r \in DOMAIN runs :
             /\ runs[r].pc # "dispatch" => runs'[r].pc # "dispatch"
             /\ runs[r].pc \in {"deferred", "done", "failed"}
                   => runs'[r].pc \in {runs[r].pc, "done", "failed"}]_vars


----------------------------------------------------------------------------
(* The plugin switch: start() and stop().                                  *)

\* start() has returned after a stop(), and the stored configuration was not
\* written between the two calls nor since
RestartedUnchanged ==
    /\ lifecycle.last = "start"
    /\ lifecycle.prev = "stop"
    /\ ~lifecycle.prevWritten
    /\ ~lifecycle.written

\* C35: after stop() followed by start(), with the stored configuration
\* unchanged in between, every enabled task with a valid non-empty cron
\* expression again has exactly one active timer.
C35_StopStartRestoresTimers ==
    RestartedUnchanged =>
        \A n \in Names :
            (EnabledInStorage(n) /\ Schedulable(getTask(storage, n)))
                => Cardinality(ActiveTimers(cronTasks, n)) = 1


\* the intervals that are scheduled and not cleared
ScheduledIntervals == { h \in DOMAIN intervals : intervals[h] }

\* stop() was the latest call of the plugin switch
Stopped == lifecycle.last = "stop"

\* a timer that was not active before the step is active after it
TimerBecomesActive ==
    \E i \in DOMAIN cronTasks' :
        cronTasks'[i].running /\ (i \in DOMAIN cronTasks => ~cronTasks[i].running)

\* C36: after any sequence of constructor, start() and stop() calls at most
\* one reconciliation interval is scheduled, and from the return of stop() to
\* the next start() no reconciliation tick runs and no timer becomes active,
\* whatever is written to the configuration in the meantime.
C36_OneIntervalQuietAfterStop ==
    /\ [](Cardinality(ScheduledIntervals) <= 1)
    /\ [][(Stopped /\ Stopped')
             => /\ ~(\E h \in DOMAIN intervals : IntervalTick(h))
                /\ ~TimerBecomesActive]_vars


----------------------------------------------------------------------------
(* The tracked list cronTasks.                                             *)

\* the task names that are configured and enabled
EnabledNames == { n \in Names : EnabledInStorage(n) }

\* C39: the tracked timer list holds only the timers of the most recent
\* reconciliation: after any number of configuration changes and ticks it is
\* no longer than the number of enabled tasks, and none of its timers was
\* stopped by an earlier reconciliation.
C39_TrackedListIsLatestGeneration ==
    AfterCompletedTick =>
        /\ Len(cronTasks) <= Cardinality(EnabledNames)
        /\ \A i \in DOMAIN cronTasks : cronTasks[i].running


----------------------------------------------------------------------------
(* A decode that throws during a tick.                                     *)

\* JSON.parse throws for a stored value of one of the configured tasks
DecodeFails == \E i \in DOMAIN tasks : ~getTaskReturns(storage, tasks[i])

\* after the step every enabled task with a usable expression has its one
\* running timer, no other task has one, and the fingerprint is that of the
\* stored configuration
InLineWithStorage ==
    /\ currentChecksum' = newCronChecksum(getTasks(storage, tasks))
    /\ \A n \in Names :
          IF EnabledInStorage(n) /\ Schedulable(getTask(storage, n))
          THEN Cardinality(ActiveTimers(cronTasks', n)) = 1
          ELSE ActiveTimers(cronTasks', n) = {}

\* C37: a tick during which the decoding of a task fails changes nothing: the
\* fingerprint keeps its value, no timer is stopped and none is created; and
\* the tick that follows, once every task decodes, reconciles the timers with
\* the stored configuration as if the failed tick had not been.
C37_DecodeFailureLeavesTickWithoutEffect ==
    /\ [][(Tick /\ DecodeFails)
             => /\ currentChecksum' = currentChecksum
                /\ cronTasks' = cronTasks]_vars
    /\ [][(Tick /\ lastTick = "threw" /\ ~DecodeFails) => InLineWithStorage]_vars

\* a tick failed on a value that is not JSON after the schedule was changed:
\* the timers of the earlier reconciliation run on and the fingerprint is
\* still the one of the configuration before the changes
C37_Witness ==
    /\ lastTick = "threw"
    /\ DecodeFails
    /\ nWrites = 2
    /\ ~cfgChanged
    /\ currentChecksum = newCronChecksum(getTasks(SavedStorage, <<"A", "B">>))
    /\ Len(cronTasks) = 2
    /\ cronTasks[1].running /\ cronTasks[2].running
    /\ \E n \in Names : storage[getTaskKeys(n).taskCronKey] # SavedStorage[getTaskKeys(n).taskCronKey]


----------------------------------------------------------------------------
(* A task whose type is none of the ten.                                   *)

\* C38: the execution of a task whose stored type is absent or is none of
\* the ten types makes no reboot, restart, install, fetch or deferred call:
\* its message stays empty, it has no deferred action, and the only calls it
\* makes are the notifications, with an empty body, one to each notifier the
\* task resolves to, and none when skipNotify is set.
C38_UnknownTypeOnlyNotifies ==
    \A r \in DOMAIN runs :
        runs[r].task.type \notin TaskType =>
            /\ runs[r].message = ""
            /\ runs[r].actionsToDefer = "none"
            /\ ~runs[r].deferredRan
            /\ \A c \in DOMAIN runs[r].calls : runs[r].calls[c].op = "sendNotification"
            /\ Len(runs[r].calls) = Len(runs[r].sent)
            /\ \A s \in DOMAIN runs[r].sent :
                  /\ runs[r].sent[s].body = ""
                  /\ runs[r].sent[s].title = runs[r].task.name
            /\ runs[r].task.skipNotify => runs[r].sent = <<>>
            /\ runs[r].pc = "done" =>
                  [s \in DOMAIN runs[r].sent |-> runs[r].sent[s].to]
                      = ResolveNotifiers(runs[r].task, FALSE, notifier)

\* the execution of a task with a type in another spelling is over: it sent
\* its two notifiers an empty body and did nothing else
C38_Witness ==
    \E r \in DOMAIN runs :
        /\ runs[r].task.type = "restartScrypted"
        /\ runs[r].pc = "done"
        /\ Len(runs[r].sent) = 2
        /\ runs[r].sent[1].body = "" /\ runs[r].sent[2].body = ""
        /\ Len(runs[r].calls) = 2


----------------------------------------------------------------------------
(* The hooks of the diagnostics plugin around runValidate.                 *)

\* the runValidate call of run r is in progress
Validating(run) == run.pc \in {"diagValidate", "diagEnd"}

\* the step ends the runValidate call that run r was in
ValidateEnds(r) ==
    /\ Validating(runs[r])
    /\ r \in DOMAIN runs'
    /\ (~Validating(runs'[r]) \/ runs'[r].target # runs[r].target)

\* the hooks the ended call leaves: those found in the plugin after the step
\* or, if the loop of the run has entered its next runValidate in the same
\* step, those the next call found and saved
HooksLeft(r) ==
    IF Validating(runs'[r])
    THEN <<runs'[r].savedValidate, runs'[r].savedWarnStep>>
    ELSE <<diagnosticsPlugin'.validate, diagnosticsPlugin'.warnStep>>

\* C40: whenever a call of runValidate ends, by returning or by an error of
\* validateDevice / validateSystem that leaves it, the validate and warnStep
\* hooks of the diagnostics plugin are the functions they were when the call
\* began.
C40_RunValidateRestoresHooks ==
    [][\A r \in DOMAIN runs :
          ValidateEnds(r) => HooksLeft(r) = <<runs[r].savedValidate, runs[r].savedWarnStep>>]_vars

====
